---- MODULE Spec2Model ----
(***************************************************************************)
(* DSPatch execution engine: Component (wiring, reference counted output   *)
(* hand-off, tick / reset state machine) driven by circuit ticks.          *)
(*                                                                         *)
(* Indices follow the source: outputs, inputs and buffers are 0-based      *)
(* (functions over 0..n-1); inputWires is a vector (a sequence).           *)
(***************************************************************************)
EXTENDS Integers, Sequences, FiniteSets, TLC

\* ------------------------------------------------------------------ bounds
NumComps == 2
NumInputs == 2
NumOutputs == 1
MaxVal == 1
MaxBuffers == 2
MaxThreads == 1
MaxConsumed == 2
MaxRewire == 1
MaxTicks == 4
MaxPasses == 2
ThreadsPerBuffer == 2

Inputs == 0..(NumInputs - 1)
Outputs == 0..(NumOutputs - 1)
Values == 1..MaxVal

\* an empty std::any
Empty == 0
Signals == {Empty} \cup Values

\* internal::Component::TickStatus
NotTicked == "NotTicked"
TickStarted == "TickStarted"
Ticking == "Ticking"

\* Component::ProcessOrder
InOrder == "InOrder"
OutOfOrder == "OutOfOrder"

\* the subclasses of Component: one whose Process_ is arbitrary, and the
\* components of the feedback tests
Arbitrary == "Arbitrary"

\* any subclass, with NumInputs inputs wherever it is in the list
Wide == "Wide"
Counter == "Counter"
Adder == "Adder"
PassThrough == "PassThrough"
FeedbackProbe == "FeedbackProbe"

\* an int held by a signal, and the int a signal holds
IntSignal(n) == n + 1
SignalInt(s) == IF s = 0 THEN 0 ELSE s - 1

\* a null ThreadPool::SPtr
NoPool == [bufferCount |-> -1, threadsPerBuffer |-> -1]

\* Component::TickMode
TickModes == {"Series", "Parallel"}

\* CircuitThread: the thread that calls Start, SyncAndResume and Stop is in no
\* call and has issued no SyncAndResume; mode is the member _mode and arg
\* the argument of the SyncAndResume call
Idle == [op |-> "idle", i |-> 1, inStop |-> FALSE, woken |-> FALSE, resumes |-> 0,
         stopAt |-> "idle", mode |-> "Series", arg |-> "Series"]

VARIABLES
    threads,        \* CircuitThread::_threads: flags and position of every worker
    caller,         \* the thread that calls Start, SyncAndResume and Stop
    alive,          \* component constructed and not yet destroyed
    subclass,       \* the subclass of the component
    queue,          \* ThreadPool: the DoTick tasks of every bucket, oldest first
    count,          \* Counter's member: the next value it emits
    processOrder,   \* p->processOrder
    bufferCount,    \* p->bufferCount
    threadPool,     \* p->threadPool (NoPool = nullptr)
    inputWires,     \* p->inputWires
    refs,           \* p->refs[buffer][output] = (total, consumed)
    inputBuses,     \* p->inputBuses[buffer][input]
    outputBuses,    \* p->outputBuses[buffer][output]
    tickStatuses,   \* p->tickStatuses[buffer]
    feedbackWires,  \* p->feedbackWires[buffer] (positions in inputWires)
    releaseFlags,   \* p->releaseFlags[buffer].gotRelease
    taskPc,         \* p->componentThreads[buffer]: 0 = done, k > 0 = DoTick running
    stack,          \* call stack of the driving thread
    retval,         \* value returned by the last Tick call that returned
    cur,            \* the CircuitThread worker that is running
    parked,         \* (stack, retval, pos) of the workers that are not running
    pos,            \* circuit: 0 = idle, 1..N = tick pass, N+1..2N = reset pass
    curBuf,         \* circuit: buffer of the pass in progress
    nextBuf,        \* circuit: buffer of the next tick (round robin)
    rewire,         \* wiring calls that may still follow the first tick
    ticked,         \* whether a circuit tick was ever issued
    fedBack,        \* whether a tick was ever issued on a graph with a cycle
    ev,             \* observer: the call made by the last step and its result
    processed,      \* observer: Process_ calls per (component, buffer) since Reset
    lastOut,        \* observer: the outputs the last Process_ of (component, buffer) wrote
    entered         \* observer: buffer of the last Process_ an InOrder component entered

vars == <<threads, caller, alive, subclass, queue, count, processOrder, bufferCount, threadPool, inputWires, refs,
          inputBuses, outputBuses, tickStatuses, feedbackWires, releaseFlags,
          taskPc, stack, retval, cur, parked, pos, curBuf, nextBuf, rewire,
          ticked, fedBack, ev, processed, lastOut, entered>>

\* the components, in the order of the circuit's list
Comps == DOMAIN alive

CircuitSize == Len(alive)

\* ------------------------------------------------------------- wiring state
\* The wiring operations read and write inputWires and refs only; they are
\* written as operators on a record W = [wires, refs] so that ConnectInput
\* can call DisconnectInput and the destructor DisconnectAllInputs.

Wire(from, fromOutput, toInput) ==
    [fromComponent |-> from, fromOutput |-> fromOutput, toInput |-> toInput]

RemoveAt(s, i) == SubSeq(s, 1, i - 1) \o SubSeq(s, i + 1, Len(s))

\* SetInputCount_ in the subclass constructor: of the arbitrary components
\* the first has one input, the others NumInputs
GetInputCount(c) ==
    CASE subclass[c] = Arbitrary -> IF c = 1 THEN 1 ELSE NumInputs
      [] subclass[c] = Wide -> NumInputs
      [] subclass[c] = Counter -> 0
      [] subclass[c] = Adder -> 2
      [] subclass[c] = PassThrough -> 1
      [] subclass[c] = FeedbackProbe -> 1

\* SetOutputCount_ in the subclass constructor
GetOutputCount(c) == IF subclass[c] = FeedbackProbe THEN 0 ELSE NumOutputs


\* internal::Component::IncRefs
IncRefs(r, c, output) ==
    [r EXCEPT ![c] = [b \in DOMAIN r[c] |->
        [r[c][b] EXCEPT ![output].total = @ + 1]]]

\* internal::Component::DecRefs
DecRefs(r, c, output) ==
    [r EXCEPT ![c] = [b \in DOMAIN r[c] |->
        [r[c][b] EXCEPT ![output].total = @ - 1]]]

\* position of the first wire of c into inputNo, 0 if there is none
FirstWireTo(wires, inputNo) ==
    IF \E i \in 1..Len(wires) : wires[i].toInput = inputNo
    THEN CHOOSE i \in 1..Len(wires) :
            /\ wires[i].toInput = inputNo
            /\ \A j \in 1..(i - 1) : wires[j].toInput # inputNo
    ELSE 0

\* Component::DisconnectInput( int inputNo )
DisconnectInput(W, c, inputNo) ==
    LET i == FirstWireTo(W.wires[c], inputNo) IN
    IF i = 0 THEN W
    ELSE [wires |-> [W.wires EXCEPT ![c] = RemoveAt(@, i)],
          refs  |-> DecRefs(W.refs, W.wires[c][i].fromComponent,
                            W.wires[c][i].fromOutput)]

RECURSIVE DisconnectFromLoop(_, _, _, _)
DisconnectFromLoop(W, c, from, i) ==
    IF i > Len(W.wires[c]) THEN W
    ELSE IF W.wires[c][i].fromComponent = from
         THEN DisconnectFromLoop(
                [wires |-> [W.wires EXCEPT ![c] = RemoveAt(@, i)],
                 refs  |-> DecRefs(W.refs, from, W.wires[c][i].fromOutput)],
                c, from, i)
         ELSE DisconnectFromLoop(W, c, from, i + 1)

\* Component::DisconnectInput( const Component::SCPtr& fromComponent )
DisconnectInputFrom(W, c, from) == DisconnectFromLoop(W, c, from, 1)

RECURSIVE DisconnectAllLoop(_, _, _)
DisconnectAllLoop(W, c, i) ==
    IF i >= GetInputCount(c) THEN W
    ELSE DisconnectAllLoop(DisconnectInput(W, c, i), c, i + 1)

\* Component::DisconnectAllInputs
DisconnectAllInputs(W, c) == DisconnectAllLoop(W, c, 0)

ConnectInputAccepts(c, from, fromOutput, toInput) ==
    ~(fromOutput >= GetOutputCount(from) \/ toInput >= GetInputCount(c))

ConnectInputNoDisconnect(W, c, from, fromOutput, toInput) ==
    IF ~ConnectInputAccepts(c, from, fromOutput, toInput) THEN W
    ELSE [wires |-> [W.wires EXCEPT ![c] = Append(@, Wire(from, fromOutput, toInput))],
          refs  |-> IncRefs(W.refs, from, fromOutput)]

\* Component::ConnectInput: the wiring state it leaves
ConnectInputState(W, c, from, fromOutput, toInput) ==
    IF ~ConnectInputAccepts(c, from, fromOutput, toInput) THEN W
    ELSE LET W1 == DisconnectInput(W, c, toInput) IN
         [wires |-> [W1.wires EXCEPT ![c] = Append(@, Wire(from, fromOutput, toInput))],
          refs  |-> IncRefs(W1.refs, from, fromOutput)]

\* ---------------------------------------------------------------- signals
\* A bus is its vector _signals, a function on 0..(size - 1); a signal is a
\* std::any: Empty, an int (positive, see IntSignal) or a float (negative).
\* (size_t)signalIndex wraps a negative int round to the top of the range of
\* size_t; the range is 2^64 in the build and SizeRange here, integers of
\* the checker being 32 bits wide.
SizeRange == 2 ^ 30

ToSizeTAbs(signalIndex) == IF signalIndex < 0 THEN 0 - signalIndex ELSE signalIndex

\* (size_t)signalIndex
ToSizeT(signalIndex) == signalIndex % SizeRange

\* SignalBus::GetSignalCount
GetSignalCount(bus) == Cardinality(DOMAIN bus)

\* the test of every indexed operation: (size_t)signalIndex < _signals.size()
InRange(bus, signalIndex) == ToSizeT(signalIndex) < GetSignalCount(bus)

\* a float held by a signal
FloatSignal(n) == 0 - (n + 1)

\* std::any::type()
TypeOf(signal) ==
    IF signal = Empty THEN "void" ELSE IF signal > 0 THEN "int" ELSE "float"

\* a null pointer; a pointer into the bus is the index of its cell
NullPtr == -1

\* SignalBus::SetSignalCount: _signals.resize( signalCount )
SetSignalCount(bus, signalCount) ==
    [i \in 0..(signalCount - 1) |-> IF i \in DOMAIN bus THEN bus[i] ELSE Empty]

\* SignalBus::GetSignal
GetSignal(bus, signalIndex) ==
    IF InRange(bus, signalIndex) THEN ToSizeT(signalIndex) ELSE NullPtr

\* SignalBus::HasValue
HasValue(bus, signalIndex) ==
    IF InRange(bus, signalIndex) THEN bus[ToSizeT(signalIndex)] # Empty ELSE FALSE

\* SignalBus::GetValue<int>: null also when the cell holds no int
GetValue(bus, signalIndex) ==
    IF InRange(bus, signalIndex)
    THEN IF TypeOf(bus[ToSizeT(signalIndex)]) = "int"
         THEN ToSizeT(signalIndex) ELSE NullPtr
    ELSE NullPtr

\* SignalBus::SetValue( signalIndex, newValue ), newValue a signal's content
SetValue(bus, signalIndex, newValue) ==
    IF InRange(bus, signalIndex)
    THEN [bus EXCEPT ![ToSizeT(signalIndex)] = newValue]
    ELSE bus

\* SignalBus::MoveValue: emplace from the forwarded value
MoveValue(bus, signalIndex, newValue) ==
    IF InRange(bus, signalIndex)
    THEN [bus EXCEPT ![ToSizeT(signalIndex)] = newValue]
    ELSE bus

\* SignalBus::SetSignal: copy fromSignal into cell toSignalIndex
SetSignal(bus, toSignalIndex, fromSignal) ==
    IF InRange(bus, toSignalIndex)
    THEN [bus EXCEPT ![ToSizeT(toSignalIndex)] = fromSignal]
    ELSE bus

MoveSignalCopies(bus, toSignalIndex, fromSignal) ==
    [bus |-> SetSignal(bus, toSignalIndex, fromSignal), signal |-> fromSignal]

\* SignalBus::MoveSignal swaps cell toSignalIndex and fromSignal: the pair
\* (the bus, the signal) after the call
MoveSignal(bus, toSignalIndex, fromSignal) ==
    IF InRange(bus, toSignalIndex)
    THEN [bus |-> [bus EXCEPT ![ToSizeT(toSignalIndex)] = fromSignal],
          signal |-> bus[ToSizeT(toSignalIndex)]]
    ELSE [bus |-> bus, signal |-> fromSignal]

\* SignalBus::ClearAllValues
ClearAllValues(bus) == [i \in DOMAIN bus |-> Empty]

\* ------------------------------------------------------------ SetThreadPool
Resize(f, n, default) ==
    [i \in 0..(n - 1) |-> IF i \in DOMAIN f THEN f[i] ELSE default]

EmptyBus(n) == [i \in 0..(n - 1) |-> Empty]

ResizeBusesOnly(buses, n) == Resize(buses, n, EmptyBus(0))

\* Component::SetThreadPool, lines 270-271 and 284-285: the vector of buses
\* is resized, and every bus is given the signal count of the bus of buffer 0
ResizeBuses(buses, n) ==
    [i \in 0..(n - 1) |->
        SetSignalCount(IF i \in DOMAIN buses THEN buses[i] ELSE EmptyBus(0),
                       GetSignalCount(buses[0]))]

\* Component::SetThreadPool, lines 243-263: the new buffer count
NewBufferCount(pool) ==
    IF pool = NoPool THEN 1
    ELSE IF pool.bufferCount <= 0 THEN 1 ELSE pool.bufferCount

\* Component::SetThreadPool, lines 244-256: the pool the component keeps
NewThreadPool(old, pool) ==
    IF pool # NoPool
    THEN IF pool.threadsPerBuffer # 0 THEN pool ELSE NoPool
    ELSE old


\* Component::SetThreadPool, lines 276 and 291-296: every buffer's counters
\* become a copy of buffer 0's
SyncRefs(r, n) == [i \in 0..(n - 1) |-> r[0]]

\* Component::SetThreadPool applied to the components in targets
SetThreadPool(targets, pool) ==
    LET n == NewBufferCount(pool)
        T(c) == c \in targets
    IN
    /\ bufferCount' = [c \in Comps |-> IF T(c) THEN n ELSE bufferCount[c]]
    /\ threadPool' = [c \in Comps |->
            IF T(c) THEN NewThreadPool(threadPool[c], pool) ELSE threadPool[c]]
    /\ taskPc' = [c \in Comps |->
            IF T(c) THEN Resize(taskPc[c], n, 0) ELSE taskPc[c]]
    /\ feedbackWires' = [c \in Comps |->
            IF T(c) THEN Resize(feedbackWires[c], n, {}) ELSE feedbackWires[c]]
    /\ tickStatuses' = [c \in Comps |->
            IF T(c) THEN [i \in 0..(n - 1) |-> NotTicked] ELSE tickStatuses[c]]
    /\ inputBuses' = [c \in Comps |->
            IF T(c) THEN ResizeBuses(inputBuses[c], n) ELSE inputBuses[c]]
    /\ outputBuses' = [c \in Comps |->
            IF T(c) THEN ResizeBuses(outputBuses[c], n) ELSE outputBuses[c]]
    /\ releaseFlags' = [c \in Comps |->
            IF T(c) THEN [i \in 0..(n - 1) |-> i = 0] ELSE releaseFlags[c]]
    /\ refs' = [c \in Comps |-> IF T(c) THEN SyncRefs(refs[c], n) ELSE refs[c]]
    /\ processed' = [c \in Comps |->
            IF T(c) THEN Resize(processed[c], n, 0) ELSE processed[c]]
    /\ lastOut' = [c \in Comps |->
            IF T(c) THEN Resize(lastOut[c], n, EmptyBus(GetOutputCount(c)))
            ELSE lastOut[c]]
    /\ entered' = [c \in Comps |-> IF T(c) THEN -1 ELSE entered[c]]
    /\ count' = count

\* ------------------------------------------------------------------ events
\* Every action records the call it made in ev, so that a property can tell
\* which call a step was and compare the state before and after it.
Event(kind, c, b, from, fromOutput, toInput, status, result) ==
    [kind |-> kind, c |-> c, b |-> b, from |-> from, fromOutput |-> fromOutput,
     toInput |-> toInput, status |-> status, result |-> result]

CallEvent(kind, c, b) == Event(kind, c, b, c, 0, 0, NotTicked, TRUE)

TickEvent(kind, c, b, status, result) == Event(kind, c, b, c, 0, 0, status, result)

ValidIndices(c, from, fromOutput, toInput) ==
    /\ fromOutput \in 0..(GetOutputCount(from) - 1)
    /\ toInput \in 0..(GetInputCount(c) - 1)

\* --------------------------------------------------------- wiring actions
WiringState == [wires |-> inputWires, refs |-> refs]

tickVars == <<stack, retval, cur, parked, pos, curBuf, nextBuf, rewire, ticked,
             fedBack>>

driverVars == <<stack, retval, cur, parked, pos, curBuf, nextBuf, ticked, fedBack>>

wiringFrame == <<threads, caller, alive, subclass, queue, count, processOrder, bufferCount, threadPool, inputBuses,
                 outputBuses, tickStatuses, feedbackWires, releaseFlags,
                 taskPc, processed, lastOut, entered>>

\* no thread is inside a circuit tick
Quiescent ==
    /\ pos = 0 /\ stack = <<>>
    /\ \A w \in DOMAIN parked : parked[w].pos = 0 /\ parked[w].stack = <<>>

MayRewire == Quiescent /\ (~ticked \/ rewire > 0)

Rewired == rewire' = IF ticked THEN rewire - 1 ELSE rewire

\* a caller's ConnectInput( fromComponent, fromOutput, toInput ) on c; a
\* rejected call is recorded without its indices, an accepted one with
\* whether a wire was feeding toInput before it (field b)
ConnectInput(c, from, fromOutput, toInput) ==
    LET W == ConnectInputState(WiringState, c, from, fromOutput, toInput)
        ok == ConnectInputAccepts(c, from, fromOutput, toInput)
    IN
    /\ MayRewire
    /\ alive[c] /\ alive[from]
    /\ inputWires' = W.wires
    /\ refs' = W.refs
    /\ ev' = IF ok
             THEN Event("ConnectInput", c,
                        IF FirstWireTo(inputWires[c], toInput) # 0 THEN 1 ELSE 0,
                        from, fromOutput, toInput,
                        IF ValidIndices(c, from, fromOutput, toInput)
                        THEN "valid" ELSE "invalid", TRUE)
             ELSE Event("ConnectInput", c, 0, c, 0, 0,
                        IF ValidIndices(c, from, fromOutput, toInput)
                        THEN "valid" ELSE "invalid", FALSE)
    /\ Rewired
    /\ UNCHANGED <<wiringFrame, driverVars>>

WiringCall(kind, c, W) ==
    /\ MayRewire
    /\ alive[c]
    /\ inputWires' = W.wires
    /\ refs' = W.refs
    /\ ev' = CallEvent(kind, c, 0)
    /\ Rewired
    /\ UNCHANGED <<wiringFrame, driverVars>>

DisconnectInputCall(c, inputNo) ==
    WiringCall("DisconnectInput", c, DisconnectInput(WiringState, c, inputNo))

DisconnectInputFromCall(c, from) ==
    WiringCall("DisconnectInputFrom", c, DisconnectInputFrom(WiringState, c, from))

DisconnectAllInputsCall(c) ==
    WiringCall("DisconnectAllInputs", c, DisconnectAllInputs(WiringState, c))

\* a shared_ptr keeps a component alive while any wire names it as source
Referenced(c) ==
    \E d \in Comps : alive[d] /\
        \E i \in 1..Len(inputWires[d]) : inputWires[d][i].fromComponent = c

\* Component::~Component: DisconnectAllInputs, then the object (and its
\* inputWires vector) is gone
Destroy(c) ==
    LET W == DisconnectAllInputs(WiringState, c) IN
    /\ Quiescent
    /\ alive[c]
    /\ ~Referenced(c)
    /\ alive' = [alive EXCEPT ![c] = FALSE]
    /\ inputWires' = [W.wires EXCEPT ![c] = <<>>]
    /\ refs' = W.refs
    /\ ev' = CallEvent("Destroy", c, 0)
    /\ UNCHANGED <<threads, caller, subclass, queue, count, processOrder, bufferCount, threadPool, inputBuses,
                   outputBuses, tickStatuses, feedbackWires, releaseFlags,
                   taskPc, processed, lastOut, entered, tickVars>>

\* what SetThreadPool's argument is: a null pointer, a pool without threads,
\* or a pool with threads
PoolKind(pool) ==
    IF pool = NoPool THEN "null"
    ELSE IF pool.threadsPerBuffer = 0 THEN "noThreads" ELSE "pool"

\* a caller's SetThreadPool( pool ) on one component
SetThreadPoolCall(c, pool) ==
    /\ Quiescent
    /\ alive[c]
    /\ SetThreadPool({c}, pool)
    /\ ev' = TickEvent("SetThreadPool", c, 0, PoolKind(pool), TRUE)
    /\ UNCHANGED <<threads, caller, alive, subclass, queue, processOrder, inputWires, tickVars>>

\* ----------------------------------------------------------- initial state
\* Component::Component: SetThreadPool( nullptr ) on empty vectors, then the
\* subclass constructor's SetInputCount_ / SetOutputCount_
ConstructedAs(kinds, order) ==
    /\ threads = <<>>
    /\ caller = Idle
    /\ alive = [c \in DOMAIN kinds |-> TRUE]
    /\ subclass = kinds
    /\ queue = [b \in 0..(MaxBuffers - 1) |-> <<>>]
    /\ count = [c \in Comps |-> 0]
    /\ processOrder = order
    /\ bufferCount = [c \in Comps |-> 1]
    /\ threadPool = [c \in Comps |-> NoPool]
    /\ inputWires = [c \in Comps |-> <<>>]
    /\ refs = [c \in Comps |-> [b \in {0} |->
                  [o \in Outputs |-> [total |-> 0, consumed |-> 0]]]]
    /\ inputBuses = [c \in Comps |-> [b \in {0} |-> EmptyBus(GetInputCount(c))]]
    /\ outputBuses = [c \in Comps |-> [b \in {0} |-> EmptyBus(GetOutputCount(c))]]
    /\ tickStatuses = [c \in Comps |-> [b \in {0} |-> NotTicked]]
    /\ feedbackWires = [c \in Comps |-> [b \in {0} |-> {}]]
    /\ releaseFlags = [c \in Comps |-> [b \in {0} |-> TRUE]]
    /\ taskPc = [c \in Comps |-> [b \in {0} |-> 0]]
    /\ processed = [c \in Comps |-> [b \in {0} |-> 0]]
    /\ lastOut = [c \in Comps |-> [b \in {0} |-> EmptyBus(GetOutputCount(c))]]
    /\ entered = [c \in Comps |-> -1]
    /\ stack = <<>>
    /\ retval = TRUE
    /\ pos = 0
    /\ curBuf = 0
    /\ nextBuf = 0
    /\ ticked = FALSE
    /\ fedBack = FALSE
    /\ ev = CallEvent("Component", 1, 0)

\* NumComps arbitrary components, the first one InOrder
Constructed ==
    ConstructedAs([c \in 1..NumComps |-> Arbitrary],
                  [c \in 1..NumComps |-> IF c = 1 THEN InOrder ELSE OutOfOrder])

\* ------------------------------------------- specification: wiring calls
\* Any sequence of wiring calls, destructions and SetThreadPool calls on
\* components that are not ticking; ConnectInput is also given indices one
\* below and one above the valid input range and one above the output range.
InitWire == Constructed /\ cur = 1 /\ parked = <<>> /\ rewire = MaxRewire

\* pools that change the buffer count of one component
WirePools == {NoPool} \cup [bufferCount : {MaxBuffers}, threadsPerBuffer : {0}]

NextWire ==
    \/ \E c \in Comps, from \in Comps, fromOutput \in 0..NumOutputs,
          toInput \in (-1)..NumInputs :
            ConnectInput(c, from, fromOutput, toInput)
    \/ \E c \in Comps, inputNo \in (-1)..NumInputs : DisconnectInputCall(c, inputNo)
    \/ \E c \in Comps, from \in Comps : alive[from] /\ DisconnectInputFromCall(c, from)
    \/ \E c \in Comps : DisconnectAllInputsCall(c)
    \/ \E c \in Comps : Destroy(c)
    \/ \E c \in Comps, pool \in WirePools : SetThreadPoolCall(c, pool)

SpecWire == InitWire /\ [][NextWire]_vars

\* ---------------------------------------------------------------- GetOutput
IsFinalRequestNever(consumed, total) == FALSE

IsFinalRequestAlways(consumed, total) == TRUE

\* internal::Component::GetOutput, lines 497 and 508: ++ref.second == ref.first
IsFinalRequest(consumed, total) == consumed + 1 = total

GetOutputAlwaysReads(from, b, fromOutput) == TRUE

GetOutputNeverReads(from, b, fromOutput) == FALSE

\* internal::Component::GetOutput, line 486
GetOutputReads(from, b, fromOutput) ==
    HasValue(outputBuses[from][b], fromOutput)

MoveAsCopy(bus, toSignalIndex, fromSignal) ==
    [bus |-> SetSignal(bus, toSignalIndex, fromSignal), signal |-> fromSignal]

\* internal::Component::GetOutput, line 519: toBus.MoveSignal( toInput, signal )
GetOutputMove(bus, toSignalIndex, fromSignal) ==
    MoveSignal(bus, toSignalIndex, fromSignal)

\* internal::Component::GetOutput( bufferNo, fromOutput, toInput, toBus ) on
\* component from, toBus being input bus b of component to.  The locked
\* branch (pool and total > 1) performs the same updates under the mutex.
GetOutput(from, b, fromOutput, to, toInput) ==
    LET signal == outputBuses[from][b][fromOutput]
        ref == refs[from][b][fromOutput]
        toBus == inputBuses[to][b]
    IN
    IF ~GetOutputReads(from, b, fromOutput)
    THEN UNCHANGED <<inputBuses, outputBuses, refs>>
    ELSE IF ~IsFinalRequest(ref.consumed, ref.total)
    THEN /\ refs' = [refs EXCEPT ![from][b][fromOutput].consumed = @ + 1]
         /\ inputBuses' = [inputBuses EXCEPT ![to][b] = SetSignal(toBus, toInput, signal)]
         /\ UNCHANGED outputBuses
    ELSE LET m == GetOutputMove(toBus, toInput, signal) IN
         /\ refs' = [refs EXCEPT ![from][b][fromOutput].consumed = 0]
         /\ inputBuses' = [inputBuses EXCEPT ![to][b] = m.bus]
         /\ outputBuses' = [outputBuses EXCEPT ![from][b][fromOutput] = m.signal]

\* --------------------------------------------------------------- Process_
\* Process_ is the subclass's: it may set each output to any value or leave
\* it empty (a sporadic producer).  The outputs were cleared just before.
\* Counter emits its count, Adder the sum of the ints on its inputs (0 for an
\* absent one), PassThrough its input if it has one, FeedbackProbe nothing;
\* the value of in is the input bus when Process_ is called
ProcessOutputs(c, in) ==
    CASE subclass[c] = Arbitrary -> [0..(GetOutputCount(c) - 1) -> Signals]
      [] subclass[c] = Wide -> [0..(GetOutputCount(c) - 1) -> Signals]
      [] subclass[c] = Counter -> {[o \in Outputs |-> IntSignal(count[c])]}
      [] subclass[c] = Adder ->
            {[o \in Outputs |-> IntSignal(SignalInt(in[0]) + SignalInt(in[1]))]}
      [] subclass[c] = PassThrough -> {[o \in Outputs |-> in[0]]}
      [] subclass[c] = FeedbackProbe -> {EmptyBus(0)}

\* PassThrough moves its input signal to the output (SignalBus::MoveSignal
\* swaps it with the cleared output cell); the others leave the inputs
ProcessInputs(c, in) ==
    IF subclass[c] = PassThrough THEN ClearAllValues(in) ELSE in

NeedsRelease(c) == processOrder[c] = InOrder /\ bufferCount[c] > 1

NextBufferSame(c, b) == b

\* Component::_ReleaseThread, lines 471-474: the buffer after b, round robin
NextBuffer(c, b) == IF b + 1 = bufferCount[c] THEN 0 ELSE b + 1

ClearOutputsNot(c, b) == outputBuses' = outputBuses

\* Component::_DoTick, line 429: the outputs are cleared before Process_
ClearOutputs(c, b) ==
    outputBuses' = [outputBuses EXCEPT ![c][b] = ClearAllValues(@)]

\* Component::_WaitForRelease, lines 450-467: the thread goes on once
\* gotRelease is set, and takes the flag down (an OutOfOrder component, or
\* one with a single buffer, does not call it: line 432)
WaitForRelease(c, b) ==
    /\ NeedsRelease(c) => releaseFlags[c][b]
    /\ releaseFlags' = IF NeedsRelease(c)
                       THEN [releaseFlags EXCEPT ![c][b] = FALSE]
                       ELSE releaseFlags
    /\ entered' = IF NeedsRelease(c) THEN [entered EXCEPT ![c] = b] ELSE entered

\* Component::_ReleaseThread, lines 469-482: the next buffer's flag is set
ReleaseThread(c, b) ==
    releaseFlags' = IF NeedsRelease(c)
                    THEN [releaseFlags EXCEPT ![c][NextBuffer(c, b)] = TRUE]
                    ELSE releaseFlags

\* Component::_DoTick, lines 437-440 and 445: Process_ writes the outputs,
\* then the next buffer is released
Process(c, b) ==
    /\ \E out \in ProcessOutputs(c, inputBuses[c][b]) :
          /\ outputBuses' = [outputBuses EXCEPT ![c][b] = out]
          /\ lastOut' = [lastOut EXCEPT ![c][b] = out]
    /\ inputBuses' = [inputBuses EXCEPT ![c][b] = ProcessInputs(c, @)]
    /\ count' = IF subclass[c] = Counter THEN [count EXCEPT ![c] = @ + 1] ELSE count
    /\ ReleaseThread(c, b)
    /\ processed' = [processed EXCEPT ![c][b] = @ + 1]

\* ------------------------------------------------------------------- Tick
Frame(c, b, pc, i) == [c |-> c, b |-> b, pc |-> pc, i |-> i]

HasPool(c) == threadPool[c] # NoPool

TickResultTrueOnlyIfNew(status) == status = NotTicked

TickResultAlwaysTrue(status) == TRUE

\* Component::Tick, lines 338-345: the value returned when no tick is started
TickResult(status) == status # TickStarted

TickCallRestarts(c, b, rest) ==
    IF tickStatuses[c][b] # TickStarted
    THEN /\ stack' = <<Frame(c, b, "tickStarted", 1)>> \o rest
         /\ retval' = retval
         /\ ev' = TickEvent("TickEnter", c, b, NotTicked, TRUE)
    ELSE /\ stack' = rest
         /\ retval' = TickResult(tickStatuses[c][b])
         /\ ev' = TickEvent("Tick", c, b, tickStatuses[c][b],
                            TickResult(tickStatuses[c][b]))

\* Component::Tick( bufferNo ) is called on c with the caller's frames in
\* rest, and reads the status (lines 309 and 338).  A component found
\* NotTicked gets a frame and goes on to line 312; any other status returns
\* at once.  The status is written by the next step of the thread: nothing
\* makes the read and the write one atomic operation.
TickCall(c, b, rest) ==
    IF tickStatuses[c][b] = NotTicked
    THEN /\ stack' = <<Frame(c, b, "tickStarted", 1)>> \o rest
         /\ retval' = retval
         /\ ev' = TickEvent("TickEnter", c, b, NotTicked, TRUE)
    ELSE /\ stack' = rest
         /\ retval' = TickResult(tickStatuses[c][b])
         /\ ev' = TickEvent("Tick", c, b, tickStatuses[c][b],
                            TickResult(tickStatuses[c][b]))

Top == Head(stack)

Running(pc) == stack # <<>> /\ Top.pc = pc

TopWire == inputWires[Top.c][Top.i]

NoMoreWires == FALSE

\* the loop over p->inputWires (lines 317 and 412) has a wire left
MoreWires == Top.i <= Len(inputWires[Top.c])

\* Component::Tick, line 312: TickStarted, then the pool branch ticks the
\* sources and the other branch goes to line 333
SetTickStarted ==
    /\ Running("tickStarted")
    /\ tickStatuses' = [tickStatuses EXCEPT ![Top.c][Top.b] = TickStarted]
    /\ stack' = <<[Top EXCEPT !.pc = IF HasPool(Top.c) THEN "tickSources"
                                                        ELSE "setTicking"]>>
                   \o Tail(stack)
    /\ ev' = CallEvent("SetTickStarted", Top.c, Top.b)
    /\ UNCHANGED <<cur, parked, threads, caller, alive, subclass, queue, processOrder, bufferCount, threadPool,
                   inputWires, refs,
                   inputBuses, outputBuses, feedbackWires, releaseFlags, taskPc,
                   retval, pos, curBuf, nextBuf, rewire, ticked, fedBack, processed, lastOut, count, entered>>

\* Component::Tick, lines 317-319 (pool): tick the source of the next wire
PoolTickSource ==
    /\ Running("tickSources") /\ MoreWires
    /\ TickCall(TopWire.fromComponent, Top.b,
                <<[Top EXCEPT !.pc = "tickReturned"]>> \o Tail(stack))
    /\ UNCHANGED <<cur, parked, threads, caller, alive, subclass, queue, processOrder, bufferCount, threadPool,
                   inputWires, refs,
                   inputBuses, outputBuses, tickStatuses, feedbackWires, releaseFlags,
                   taskPc,
                   pos, curBuf, nextBuf, rewire, ticked, fedBack, processed, lastOut, count, entered>>

\* Component::Tick, lines 319-322 (pool): a source that returned false is a
\* feedback source
PoolTickReturned ==
    /\ Running("tickReturned")
    /\ feedbackWires' =
          IF ~retval
          THEN [feedbackWires EXCEPT ![Top.c][Top.b] = @ \cup {Top.i}]
          ELSE feedbackWires
    /\ stack' = <<[Top EXCEPT !.pc = "tickSources", !.i = @ + 1]>> \o Tail(stack)
    /\ ev' = CallEvent("feedback", Top.c, Top.b)
    /\ UNCHANGED <<cur, parked, threads, caller, alive, subclass, queue, processOrder, bufferCount, threadPool,
                   inputWires, refs,
                   inputBuses, outputBuses, tickStatuses, releaseFlags, taskPc,
                   retval, pos, curBuf, nextBuf, rewire, ticked, fedBack, processed, lastOut, count, entered>>

\* Component::Tick, lines 326-328 and 345 (pool): Ticking, TickAsync, return
PoolDispatch ==
    /\ Running("tickSources") /\ ~MoreWires
    /\ tickStatuses' = [tickStatuses EXCEPT ![Top.c][Top.b] = Ticking]
    /\ taskPc' = [taskPc EXCEPT ![Top.c][Top.b] = 1]
    /\ stack' = Tail(stack)
    /\ retval' = TRUE
    /\ ev' = TickEvent("TickReturn", Top.c, Top.b, NotTicked, TRUE)
    /\ UNCHANGED <<cur, parked, threads, caller, alive, subclass, queue, processOrder, bufferCount, threadPool,
                   inputWires, refs,
                   inputBuses, outputBuses, feedbackWires, releaseFlags,
                   pos, curBuf, nextBuf, rewire, ticked, fedBack, processed, lastOut, count, entered>>

\* Component::Tick, line 333 (no pool): Ticking, then _DoTick
SetTicking ==
    /\ Running("setTicking")
    /\ tickStatuses' = [tickStatuses EXCEPT ![Top.c][Top.b] = Ticking]
    /\ stack' = <<[Top EXCEPT !.pc = "doTick"]>> \o Tail(stack)
    /\ ev' = CallEvent("SetTicking", Top.c, Top.b)
    /\ UNCHANGED <<cur, parked, threads, caller, alive, subclass, queue, processOrder, bufferCount, threadPool,
                   inputWires, refs,
                   inputBuses, outputBuses, feedbackWires, releaseFlags, taskPc,
                   retval, pos, curBuf, nextBuf, rewire, ticked, fedBack, processed, lastOut, count, entered>>

\* Component::_DoTick, line 415 (no pool): tick the source of the next wire
DoTickSource ==
    /\ Running("doTick") /\ MoreWires
    /\ TickCall(TopWire.fromComponent, Top.b,
                <<[Top EXCEPT !.pc = "getOutput"]>> \o Tail(stack))
    /\ UNCHANGED <<cur, parked, threads, caller, alive, subclass, queue, processOrder, bufferCount, threadPool,
                   inputWires, refs,
                   inputBuses, outputBuses, tickStatuses, feedbackWires, releaseFlags,
                   taskPc,
                   pos, curBuf, nextBuf, rewire, ticked, fedBack, processed, lastOut, count, entered>>

\* Component::_DoTick, line 418 (no pool): read the source's output
DoTickGetOutput ==
    /\ Running("getOutput")
    /\ GetOutput(TopWire.fromComponent, Top.b, TopWire.fromOutput, Top.c, TopWire.toInput)
    /\ stack' = <<[Top EXCEPT !.pc = "doTick", !.i = @ + 1]>> \o Tail(stack)
    /\ ev' = Event("GetOutput", Top.c, Top.b, TopWire.fromComponent,
                   TopWire.fromOutput, TopWire.toInput, NotTicked, TRUE)
    /\ UNCHANGED <<cur, parked, threads, caller, alive, subclass, queue, processOrder, bufferCount, threadPool,
                   inputWires,
                   tickStatuses, feedbackWires, releaseFlags, taskPc,
                   retval, pos, curBuf, nextBuf, rewire, ticked, fedBack, processed, lastOut, count, entered>>

\* Component::_DoTick, line 429 (no pool): every wire is read, the outputs
\* are cleared
DoTickClear ==
    /\ Running("doTick") /\ ~MoreWires
    /\ ClearOutputs(Top.c, Top.b)
    /\ stack' = <<[Top EXCEPT !.pc = "waitForRelease"]>> \o Tail(stack)
    /\ ev' = CallEvent("Clear", Top.c, Top.b)
    /\ UNCHANGED <<cur, parked, threads, caller, alive, subclass, queue, processOrder, bufferCount, threadPool,
                   inputWires, refs,
                   inputBuses, tickStatuses, feedbackWires, releaseFlags, taskPc,
                   retval, pos, curBuf, nextBuf, rewire, ticked, fedBack, processed,
                   lastOut, count, entered>>

\* Component::_DoTick, lines 432-437 (no pool): past _WaitForRelease, Process_
\* is entered
DoTickEnter ==
    /\ Running("waitForRelease")
    /\ WaitForRelease(Top.c, Top.b)
    /\ stack' = <<[Top EXCEPT !.pc = "process"]>> \o Tail(stack)
    /\ ev' = CallEvent("ProcessEnter", Top.c, Top.b)
    /\ UNCHANGED <<cur, parked, threads, caller, alive, subclass, queue, processOrder, bufferCount, threadPool,
                   inputWires, refs,
                   inputBuses, outputBuses, tickStatuses, feedbackWires, taskPc,
                   retval, pos, curBuf, nextBuf, rewire, ticked, fedBack, processed,
                   lastOut, count>>

\* Component::_DoTick, lines 437-447 (no pool): Process_ returns, the next
\* buffer is released, then Tick returns true
DoTickProcess ==
    /\ Running("process")
    /\ Process(Top.c, Top.b)
    /\ stack' = Tail(stack)
    /\ retval' = TRUE
    /\ ev' = TickEvent("TickReturn", Top.c, Top.b, NotTicked, TRUE)
    /\ UNCHANGED <<cur, parked, threads, caller, alive, subclass, queue, processOrder, bufferCount, threadPool,
                   inputWires, refs,
                   tickStatuses, feedbackWires, taskPc,
                   pos, curBuf, nextBuf, rewire, ticked, fedBack, entered>>

\* ------------------------------------------------- DoTick on a pool worker
\* ComponentThread: TickAsync makes the pool run _DoTick( bufferNo ); Wait
\* returns once it has finished (taskPc = 0).
TaskWire(c, b) == inputWires[c][taskPc[c][b]]

\* Component::_DoTick, lines 395-408 (pool): wait for a source that is not a
\* feedback source, forget a feedback wire, then read the source's output
TaskGetOutput(c, b) ==
    /\ b \in DOMAIN taskPc[c]
    /\ taskPc[c][b] \in 1..Len(inputWires[c])
    /\ IF taskPc[c][b] \in feedbackWires[c][b]
       THEN feedbackWires' = [feedbackWires EXCEPT ![c][b] = @ \ {taskPc[c][b]}]
       ELSE /\ taskPc[TaskWire(c, b).fromComponent][b] = 0
            /\ UNCHANGED feedbackWires
    /\ GetOutput(TaskWire(c, b).fromComponent, b, TaskWire(c, b).fromOutput,
                 c, TaskWire(c, b).toInput)
    /\ taskPc' = [taskPc EXCEPT ![c][b] = @ + 1]
    /\ ev' = Event("GetOutput", c, b, TaskWire(c, b).fromComponent,
                   TaskWire(c, b).fromOutput, TaskWire(c, b).toInput, NotTicked, TRUE)
    /\ UNCHANGED <<threads, caller, alive, subclass, queue, processOrder, bufferCount, threadPool, inputWires,
                   tickStatuses, releaseFlags, tickVars, processed, lastOut, count, entered>>

\* Component::_DoTick, line 429 (pool): every wire is read, the outputs are
\* cleared
TaskClear(c, b) ==
    /\ b \in DOMAIN taskPc[c]
    /\ taskPc[c][b] = Len(inputWires[c]) + 1
    /\ ClearOutputs(c, b)
    /\ taskPc' = [taskPc EXCEPT ![c][b] = @ + 1]
    /\ ev' = CallEvent("Clear", c, b)
    /\ UNCHANGED <<threads, caller, alive, subclass, queue, processOrder, bufferCount, threadPool, inputWires, refs,
                   inputBuses, tickStatuses, feedbackWires, releaseFlags, tickVars,
                   processed, lastOut, count, entered>>

\* Component::_DoTick, lines 432-437 (pool): past _WaitForRelease, Process_ is
\* entered
TaskEnter(c, b) ==
    /\ b \in DOMAIN taskPc[c]
    /\ taskPc[c][b] = Len(inputWires[c]) + 2
    /\ WaitForRelease(c, b)
    /\ taskPc' = [taskPc EXCEPT ![c][b] = @ + 1]
    /\ ev' = CallEvent("ProcessEnter", c, b)
    /\ UNCHANGED <<threads, caller, alive, subclass, queue, processOrder, bufferCount, threadPool, inputWires, refs,
                   inputBuses, outputBuses, tickStatuses, feedbackWires, tickVars,
                   processed, lastOut, count>>

\* Component::_DoTick, lines 437-447 (pool): Process_ returns, the next buffer
\* is released, then the task is done
TaskProcess(c, b) ==
    /\ b \in DOMAIN taskPc[c]
    /\ taskPc[c][b] = Len(inputWires[c]) + 3
    /\ Process(c, b)
    /\ taskPc' = [taskPc EXCEPT ![c][b] = 0]
    /\ ev' = CallEvent("Process", c, b)
    /\ UNCHANGED <<threads, caller, alive, subclass, queue, processOrder, bufferCount, threadPool, inputWires, refs,
                   tickStatuses, feedbackWires, tickVars, entered>>

\* ---------------------------------------------------------------- circuit
\* The thread that runs one circuit tick on one buffer: Circuit::Tick itself
\* (single buffer) or the CircuitThread of the buffer (CircuitThread::_Run,
\* lines 188-209): Tick on every component in list order, then Reset on every
\* component in list order.  Ticks go to the buffers round robin, and one
\* tick is complete before the next one is issued.
CircuitBufferCount == bufferCount[1]

\* the components that c reads from, directly or through other components
RECURSIVE Upstream(_, _)
Upstream(c, n) ==
    LET direct == {inputWires[c][i].fromComponent : i \in 1..Len(inputWires[c])} IN
    IF n = 0 THEN direct
    ELSE direct \cup UNION {Upstream(d, n - 1) : d \in direct}

\* the wiring graph has a directed cycle (a feedback path)
Cyclic == \E c \in Comps : c \in Upstream(c, CircuitSize)

ConsumedBounded ==
    \A c \in Comps : \A b \in DOMAIN refs[c] : \A o \in Outputs :
        refs[c][b][o].consumed < MaxConsumed

\* a Counter has emitted fewer than MaxTicks values
CountBounded == \A c \in Comps : count[c] < MaxTicks

StartTick ==
    /\ Quiescent
    /\ ConsumedBounded
    /\ CountBounded
    /\ pos' = 1
    /\ curBuf' = nextBuf
    /\ nextBuf' = IF nextBuf + 1 >= CircuitBufferCount THEN 0 ELSE nextBuf + 1
    /\ ticked' = TRUE
    /\ fedBack' = (fedBack \/ Cyclic)
    /\ ev' = CallEvent("CircuitTick", 1, nextBuf)
    /\ UNCHANGED <<cur, parked, threads, caller, alive, subclass, queue, processOrder, bufferCount, threadPool,
                   inputWires, refs,
                   inputBuses, outputBuses, tickStatuses, feedbackWires,
                   releaseFlags, taskPc, stack, retval, rewire, processed, lastOut, count, entered>>

\* CircuitThread::_Run, lines 188-191: component->Tick( _bufferNo ) on the
\* next component of the list.  A CircuitThread worker (loop) is at its sync
\* point after the last one; the thread of a Circuit::Tick call goes on to
\* the resets.
TickComponent(loop) ==
    /\ stack = <<>>
    /\ pos \in 1..CircuitSize
    /\ TickCall(pos, curBuf, <<>>)
    /\ pos' = IF loop /\ pos = CircuitSize THEN 0 ELSE pos + 1
    /\ UNCHANGED <<cur, parked, threads, caller, alive, subclass, queue, processOrder, bufferCount, threadPool,
                   inputWires, refs,
                   inputBuses, outputBuses, tickStatuses, feedbackWires, releaseFlags,
                   taskPc, curBuf, nextBuf, rewire, ticked, fedBack, processed, lastOut, count, entered>>


ResetWithoutWait(c, b) ==
    /\ inputBuses' = [inputBuses EXCEPT ![c][b] = ClearAllValues(@)]
    /\ tickStatuses' = [tickStatuses EXCEPT ![c][b] = NotTicked]

ResetKeepsInputs(c, b) ==
    /\ taskPc[c][b] = 0
    /\ inputBuses' = inputBuses
    /\ tickStatuses' = [tickStatuses EXCEPT ![c][b] = NotTicked]

\* Component::Reset( bufferNo ): wait for the buffer's DoTick, clear the
\* inputs, NotTicked
Reset(c, b) ==
    /\ taskPc[c][b] = 0
    /\ inputBuses' = [inputBuses EXCEPT ![c][b] = ClearAllValues(@)]
    /\ tickStatuses' = [tickStatuses EXCEPT ![c][b] = NotTicked]

\* CircuitThread::_Run, lines 206-209: component->Reset( _bufferNo ) on the
\* next component of the list.  A CircuitThread worker (loop) goes round to
\* the ticks of the next pass after the last one (line 186).
ResetComponent(loop) ==
    /\ stack = <<>>
    /\ pos \in (CircuitSize + 1)..(2 * CircuitSize)
    /\ Reset(pos - CircuitSize, curBuf)
    /\ processed' = [processed EXCEPT ![pos - CircuitSize][curBuf] = 0]
    /\ UNCHANGED <<lastOut, count, entered>>
    /\ pos' = IF pos < 2 * CircuitSize THEN pos + 1 ELSE IF loop THEN 1 ELSE 0
    /\ ev' = CallEvent("Reset", pos - CircuitSize, curBuf)
    /\ UNCHANGED <<cur, parked, threads, caller, alive, subclass, queue, processOrder, bufferCount, threadPool,
                   inputWires, refs,
                   outputBuses, feedbackWires, releaseFlags, taskPc, stack, retval,
                   curBuf, nextBuf, rewire, ticked, fedBack>>

\* ------------------------------------------------- CircuitThread workers
\* CircuitThread::Start spawns threadsPerBuffer workers that all run _Run on
\* the same component list and the same buffer.  One worker runs at a time
\* in the model; any other may be scheduled between two steps.
Context(s, r, p, b) == [stack |-> s, retval |-> r, pos |-> p, bufferNo |-> b]

\* the scheduler lets worker w run
Switch(w) ==
    /\ w \in DOMAIN parked
    /\ cur' = w
    /\ parked' = [x \in (DOMAIN parked \ {w}) \cup {cur} |->
                    IF x = cur THEN Context(stack, retval, pos, curBuf) ELSE parked[x]]
    /\ stack' = parked[w].stack
    /\ retval' = parked[w].retval
    /\ pos' = parked[w].pos
    /\ curBuf' = parked[w].bufferNo
    /\ ev' = CallEvent("Switch", 1, curBuf)
    /\ UNCHANGED <<wiringFrame, inputWires, refs, nextBuf, rewire, ticked,
                   fedBack>>

\* CircuitThread::SyncAndResume, lines 125-157, with the workers' side of
\* it in _Run (lines 163-173 and 193-204): once every worker is at its sync
\* point, all are resumed; a worker resumed for the first time starts with
\* the ticks, later it starts with the resets of the pass before.
SyncAndResume ==
    /\ Quiescent
    /\ ConsumedBounded
    /\ pos' = IF ticked THEN CircuitSize + 1 ELSE 1
    /\ parked' = [w \in DOMAIN parked |->
                    [parked[w] EXCEPT !.pos = IF ticked THEN CircuitSize + 1 ELSE 1]]
    /\ ticked' = TRUE
    /\ fedBack' = (fedBack \/ Cyclic)
    /\ ev' = CallEvent("SyncAndResume", 1, curBuf)
    /\ UNCHANGED <<wiringFrame, inputWires, refs, stack, retval, cur, curBuf,
                   nextBuf, rewire>>

\* Circuit::SetBufferCount( bufferCount, threadsPerBuffer ): the circuit is
\* quiescent, every component gets the circuit's pool, and the next tick
\* goes to buffer 0.  A buffer count of 0 is the single-buffer mode without
\* pool.
CircuitPool(bufferCnt, threadsPerBuffer) ==
    IF bufferCnt = 0
    THEN [bufferCount |-> 0, threadsPerBuffer |-> 0]
    ELSE [bufferCount |-> bufferCnt, threadsPerBuffer |-> threadsPerBuffer]

SetBufferCount(bufferCnt, threadsPerBuffer) ==
    /\ Quiescent
    /\ SetThreadPool(Comps, CircuitPool(bufferCnt, threadsPerBuffer))
    /\ nextBuf' = 0
    /\ ev' = CallEvent("SetBufferCount", 1, 0)
    /\ UNCHANGED <<cur, parked, threads, caller, alive, subclass, queue, processOrder, inputWires, stack, retval,
                   pos, curBuf,
                   rewire, ticked, fedBack>>

\* the buffers and the pool are set up before the first tick
SetBufferCountFirst(bufferCnt, threadsPerBuffer) ==
    /\ ~ticked
    /\ SetBufferCount(bufferCnt, threadsPerBuffer)

\* ------------------------------------ specification: a circuit that ticks
\* Components are wired with valid and too-large indices, given pools by
\* Circuit::SetBufferCount, ticked, and rewired between ticks.
Init == Constructed /\ cur = 1 /\ parked = <<>> /\ rewire = MaxRewire

Next ==
    \/ \E c \in Comps, from \in Comps, fromOutput \in 0..NumOutputs,
          toInput \in 0..NumInputs :
            ConnectInput(c, from, fromOutput, toInput)
    \/ \E c \in Comps, inputNo \in Inputs : DisconnectInputCall(c, inputNo)
    \/ \E c \in Comps, from \in Comps : DisconnectInputFromCall(c, from)
    \/ \E c \in Comps : DisconnectAllInputsCall(c)
    \/ \E bufferCnt \in 0..MaxBuffers, threadsPerBuffer \in 0..MaxThreads :
            SetBufferCountFirst(bufferCnt, threadsPerBuffer)
    \/ StartTick
    \/ TickComponent(FALSE)
    \/ SetTickStarted
    \/ PoolTickSource
    \/ PoolTickReturned
    \/ PoolDispatch
    \/ SetTicking
    \/ DoTickSource
    \/ DoTickGetOutput
    \/ DoTickClear
    \/ DoTickEnter
    \/ DoTickProcess
    \/ \E c \in Comps, b \in 0..(MaxBuffers - 1) : TaskGetOutput(c, b)
    \/ \E c \in Comps, b \in 0..(MaxBuffers - 1) : TaskClear(c, b)
    \/ \E c \in Comps, b \in 0..(MaxBuffers - 1) : TaskEnter(c, b)
    \/ \E c \in Comps, b \in 0..(MaxBuffers - 1) : TaskProcess(c, b)
    \/ ResetComponent(FALSE)

Spec == Init /\ [][Next]_vars

\* --------------------- specification: one buffer driven by several workers
\* Components without pool are wired (into input 0), then ThreadsPerBuffer
\* CircuitThread workers tick and reset them, resumed by SyncAndResume pass
\* after pass.
InitWorkers ==
    /\ Constructed
    /\ cur = 1
    /\ parked = [w \in 2..ThreadsPerBuffer |-> Context(<<>>, TRUE, 0, 0)]
    /\ rewire = 0

NextWorkers ==
    \/ \E c \in Comps, from \in Comps, fromOutput \in Outputs :
            ConnectInput(c, from, fromOutput, 0)
    \/ SyncAndResume
    \/ \E w \in 1..ThreadsPerBuffer : Switch(w)
    \/ TickComponent(TRUE)
    \/ SetTickStarted
    \/ SetTicking
    \/ DoTickSource
    \/ DoTickGetOutput
    \/ DoTickClear
    \/ DoTickEnter
    \/ DoTickProcess
    \/ ResetComponent(TRUE)

SpecWorkers == InitWorkers /\ [][NextWorkers]_vars

\* ------------------------------- specification: a fixed graph that ticks
\* The components are wired (with valid indices) and the buffers and the
\* pool are set up before the first tick; after it the circuit only ticks.
InitFixed == Constructed /\ cur = 1 /\ parked = <<>> /\ rewire = 0

ConnectInputValid(c, from, fromOutput, toInput) ==
    /\ ValidIndices(c, from, fromOutput, toInput)
    /\ ConnectInput(c, from, fromOutput, toInput)

NextFixed ==
    \/ \E c \in Comps, from \in Comps, fromOutput \in Outputs, toInput \in Inputs :
            ConnectInputValid(c, from, fromOutput, toInput)
    \/ \E bufferCnt \in 0..MaxBuffers, threadsPerBuffer \in 0..MaxThreads :
            SetBufferCountFirst(bufferCnt, threadsPerBuffer)
    \/ StartTick
    \/ TickComponent(FALSE)
    \/ SetTickStarted
    \/ PoolTickSource
    \/ PoolTickReturned
    \/ PoolDispatch
    \/ SetTicking
    \/ DoTickSource
    \/ DoTickGetOutput
    \/ DoTickClear
    \/ DoTickEnter
    \/ DoTickProcess
    \/ \E c \in Comps, b \in 0..(MaxBuffers - 1) : TaskGetOutput(c, b)
    \/ \E c \in Comps, b \in 0..(MaxBuffers - 1) : TaskClear(c, b)
    \/ \E c \in Comps, b \in 0..(MaxBuffers - 1) : TaskEnter(c, b)
    \/ \E c \in Comps, b \in 0..(MaxBuffers - 1) : TaskProcess(c, b)
    \/ ResetComponent(FALSE)

SpecFixed == InitFixed /\ [][NextFixed]_vars

\* --------------------------------- specification: the feedback adder test
\* FeedbackTest and FeedbackTest2: a counter, an adder, a passthrough and a
\* probe are added to a circuit and connected, in this order; the circuit
\* has one buffer and ticks in Series mode (no pool) or in Parallel mode (a
\* pool of one thread).
FeedbackAdderKinds == <<Counter, Adder, PassThrough, FeedbackProbe>>

FeedbackAdderWires ==
    <<[to |-> 2, wire |-> Wire(1, 0, 0)],
      [to |-> 3, wire |-> Wire(2, 0, 0)],
      [to |-> 2, wire |-> Wire(3, 0, 1)],
      [to |-> 4, wire |-> Wire(2, 0, 0)]>>

RECURSIVE WiresUpTo(_)
WiresUpTo(n) == IF n = 0 THEN 0 ELSE Len(inputWires[n]) + WiresUpTo(n - 1)

FeedbackAdderBuilt == WiresUpTo(CircuitSize) = Len(FeedbackAdderWires)

InitAdder ==
    /\ ConstructedAs(FeedbackAdderKinds, [c \in DOMAIN FeedbackAdderKinds |-> OutOfOrder])
    /\ cur = 1 /\ parked = <<>> /\ rewire = 0

\* the next circuit->ConnectOutToIn of the test
ConnectOutToIn ==
    /\ ~FeedbackAdderBuilt
    /\ LET next == FeedbackAdderWires[WiresUpTo(CircuitSize) + 1] IN
       ConnectInput(next.to, next.wire.fromComponent, next.wire.fromOutput,
                    next.wire.toInput)

\* circuit->Tick( mode ) of the test
TickFeedbackAdder == FeedbackAdderBuilt /\ StartTick

NextAdder ==
    \/ ConnectOutToIn
    \/ \E threadsPerBuffer \in 0..MaxThreads : SetBufferCountFirst(1, threadsPerBuffer)
    \/ TickFeedbackAdder
    \/ TickComponent(FALSE)
    \/ SetTickStarted
    \/ PoolTickSource
    \/ PoolTickReturned
    \/ PoolDispatch
    \/ SetTicking
    \/ DoTickSource
    \/ DoTickGetOutput
    \/ DoTickClear
    \/ DoTickEnter
    \/ DoTickProcess
    \/ \E c \in Comps : TaskGetOutput(c, 0)
    \/ \E c \in Comps : TaskClear(c, 0)
    \/ \E c \in Comps : TaskEnter(c, 0)
    \/ \E c \in Comps : TaskProcess(c, 0)
    \/ ResetComponent(FALSE)

SpecAdder == InitAdder /\ [][NextAdder]_vars

\* ------------------------------- specification: the pipeline of B buffers
\* One CircuitThread per buffer drives the shared component list
\* (CircuitThread::Start( components, bufferNo, threadsPerBuffer )), and
\* Circuit::Tick resumes the CircuitThreads round robin, so that up to
\* MaxBuffers ticks are in flight.  A group of several workers is modelled
\* on a circuit of one component without pool.
SyncPoint == 2 * CircuitSize + 1

\* worker w of threadsPerBuffer workers per buffer drives this buffer
BufferOfWorker(w, threadsPerBuffer) == (w - 1) \div threadsPerBuffer

PipelineKinds == {<<Counter>>, <<Counter, PassThrough>>}

PipelineOrders(kinds) ==
    {[c \in DOMAIN kinds |-> InOrder],
     [c \in DOMAIN kinds |-> IF c = 1 THEN InOrder ELSE OutOfOrder]}

InitPipeline ==
    /\ \E kinds \in PipelineKinds : \E order \in PipelineOrders(kinds) :
          ConstructedAs(kinds, order)
    /\ cur = 1
    /\ \E threadsPerBuffer \in 1..ThreadsPerBuffer :
          /\ threadsPerBuffer > 1 => CircuitSize = 1
          /\ parked = [w \in 2..(MaxBuffers * threadsPerBuffer) |->
                          Context(<<>>, TRUE, 0, BufferOfWorker(w, threadsPerBuffer))]
    /\ rewire = 0

\* the workers of the CircuitThread of buffer b
WorkersOf(b) ==
    {w \in DOMAIN parked : parked[w].bufferNo = b} \cup (IF curBuf = b THEN {cur} ELSE {})

WorkersPerBuffer == Cardinality(WorkersOf(0))

\* worker w is parked at a sync point of CircuitThread::_Run (line 171 or
\* 201)
AtSyncPoint(w) ==
    IF w = cur
    THEN stack = <<>> /\ pos \in {0, SyncPoint}
    ELSE parked[w].stack = <<>> /\ parked[w].pos \in {0, SyncPoint}

\* where a resumed worker goes on: the first tick pass, or the reset pass of
\* the tick pass before
Resumed(p) == IF p = 0 THEN 1 ELSE CircuitSize + 1

\* Circuit::SetBufferCount( MaxBuffers, threadsPerBuffer ) before the first
\* tick; the components of a circuit whose CircuitThreads have several
\* workers get no pool
SetPipelineBuffers(threadsPerBuffer) ==
    /\ WorkersPerBuffer > 1 => threadsPerBuffer = 0
    /\ SetBufferCountFirst(MaxBuffers, threadsPerBuffer)

\* Circuit::Tick with more than one buffer: SyncAndResume on the
\* CircuitThread of the next buffer, which returns once every worker of
\* that buffer has been at its sync point and is resumed
CircuitTick ==
    /\ CircuitBufferCount = MaxBuffers
    /\ \A w \in WorkersOf(nextBuf) : AtSyncPoint(w)
    /\ ConsumedBounded
    /\ count[1] < MaxPasses
    /\ pos' = IF curBuf = nextBuf THEN Resumed(pos) ELSE pos
    /\ parked' = [w \in DOMAIN parked |->
                    IF parked[w].bufferNo = nextBuf
                    THEN [parked[w] EXCEPT !.pos = Resumed(@)]
                    ELSE parked[w]]
    /\ nextBuf' = IF nextBuf + 1 >= CircuitBufferCount THEN 0 ELSE nextBuf + 1
    /\ ticked' = TRUE
    /\ fedBack' = (fedBack \/ Cyclic)
    /\ ev' = CallEvent("CircuitTick", 1, nextBuf)
    /\ UNCHANGED <<wiringFrame, inputWires, refs, stack, retval, cur, curBuf, rewire>>

\* CircuitThread::_Run, lines 188-204: component->Tick( _bufferNo ) on the
\* next component of the list, and after the last one the sync point
TickThenSync ==
    /\ stack = <<>>
    /\ pos \in 1..CircuitSize
    /\ TickCall(pos, curBuf, <<>>)
    /\ pos' = IF pos = CircuitSize THEN SyncPoint ELSE pos + 1
    /\ UNCHANGED <<cur, parked, threads, caller, alive, subclass, queue, processOrder, bufferCount, threadPool,
                   inputWires, refs,
                   inputBuses, outputBuses, tickStatuses, feedbackWires, releaseFlags,
                   taskPc, curBuf, nextBuf, rewire, ticked, fedBack, processed, lastOut,
                   count, entered>>

\* Component::_WaitForRelease, line 454: gotRelease is read as set, outside
\* the flag's mutex
DoTickGotRelease ==
    /\ Running("waitForRelease")
    /\ NeedsRelease(Top.c) /\ releaseFlags[Top.c][Top.b]
    /\ stack' = <<[Top EXCEPT !.pc = "gotRelease"]>> \o Tail(stack)
    /\ ev' = CallEvent("GotRelease", Top.c, Top.b)
    /\ UNCHANGED <<wiringFrame, inputWires, refs, retval, cur, parked, pos, curBuf,
                   nextBuf, rewire, ticked, fedBack>>

\* Component::_WaitForRelease, lines 456-457, and _DoTick, line 437: the
\* flag is taken down, still outside the mutex, and Process_ is entered
DoTickResetRelease ==
    /\ Running("gotRelease")
    /\ releaseFlags' = [releaseFlags EXCEPT ![Top.c][Top.b] = FALSE]
    /\ entered' = [entered EXCEPT ![Top.c] = Top.b]
    /\ stack' = <<[Top EXCEPT !.pc = "process"]>> \o Tail(stack)
    /\ ev' = CallEvent("ProcessEnter", Top.c, Top.b)
    /\ UNCHANGED <<cur, parked, threads, caller, alive, subclass, queue, processOrder, bufferCount, threadPool,
                   inputWires, refs,
                   inputBuses, outputBuses, tickStatuses, feedbackWires, taskPc,
                   retval, pos, curBuf, nextBuf, rewire, ticked, fedBack, processed,
                   lastOut, count>>

\* a step of the running worker
WorkerStep ==
    \/ TickThenSync
    \/ SetTickStarted
    \/ PoolTickSource
    \/ PoolTickReturned
    \/ PoolDispatch
    \/ SetTicking
    \/ DoTickSource
    \/ DoTickGetOutput
    \/ DoTickClear
    \/ DoTickEnter
    \/ DoTickGotRelease
    \/ DoTickResetRelease
    \/ DoTickProcess
    \/ ResetComponent(TRUE)

\* a step of the pool thread that runs _DoTick( b ) of c
TaskStep(c, b) ==
    \/ TaskGetOutput(c, b)
    \/ TaskClear(c, b)
    \/ TaskEnter(c, b)
    \/ TaskProcess(c, b)

NextPipeline ==
    \/ \E c \in Comps, from \in Comps, fromOutput \in Outputs, toInput \in Inputs :
            ConnectInputValid(c, from, fromOutput, toInput)
    \/ \E threadsPerBuffer \in 0..MaxThreads : SetPipelineBuffers(threadsPerBuffer)
    \/ CircuitTick
    \/ \E w \in 1..(MaxBuffers * ThreadsPerBuffer) : Switch(w)
    \/ WorkerStep
    \/ \E c \in Comps, b \in 0..(MaxBuffers - 1) : TaskStep(c, b)

SpecPipeline == InitPipeline /\ [][NextPipeline]_vars

\* Every thread is an operating-system thread: a worker that can take a
\* step is scheduled again and again and takes it, and so does the pool
\* thread of a dispatched _DoTick.  Nothing makes the caller of
\* Circuit::Tick issue another tick.
FairPipeline ==
    /\ \A w \in 1..(MaxBuffers * ThreadsPerBuffer) :
          WF_vars(Switch(w)) /\ SF_vars(cur = w /\ WorkerStep)
    /\ \A c \in 1..NumComps, b \in 0..(MaxBuffers - 1) :
          WF_vars(c \in Comps /\ TaskStep(c, b))

SpecPipelineFair == SpecPipeline /\ FairPipeline

\* --------------------------- specification: a CircuitThread that is stopped
\* CircuitThread::Start on a circuit of one Counter without pool, then calls
\* of SyncAndResume and one call of Stop by the same thread, while the
\* workers run _Run.  A block that holds a worker's resumeMutex is one step.
Thread(pc) == [pc |-> pc, stop |-> FALSE, stopped |-> FALSE, gotResume |-> FALSE,
               gotSync |-> FALSE, woken |-> FALSE, joined |-> FALSE,
               tickPasses |-> 0, resetPasses |-> 0, released |-> 0]

InitStop ==
    /\ ConstructedAs(<<Counter>>, <<OutOfOrder>>)
    /\ cur = 1 /\ parked = <<>> /\ rewire = 0

stopFrame == <<alive, subclass, queue, count, processOrder, bufferCount, threadPool, inputWires,
               refs, inputBuses, outputBuses, tickStatuses, feedbackWires, releaseFlags,
               taskPc, stack, retval, cur, curBuf, nextBuf, rewire, ticked, fedBack,
               processed, lastOut, entered>>

\* CircuitThread::Start, lines 47-71: no thread exists yet, so none is
\* running; the flags are reset and the workers are spawned
Start(threadsPerBuffer) ==
    /\ caller.op = "idle" /\ threads = <<>>
    /\ threads' = [w \in 1..threadsPerBuffer |-> Thread("run")]
    /\ parked' = [w \in 2..threadsPerBuffer |-> Context(<<>>, TRUE, 0, 0)]
    /\ ev' = CallEvent("Start", 1, 0)
    /\ UNCHANGED <<caller, pos, stopFrame>>

Waiting(t) == t.pc \in {"wait0", "wait1"}

NotifyNone(t) == t

\* resumeCondt.notify_all(), line 155: a worker that waits is woken
NotifyAll(t) == [t EXCEPT !.woken = Waiting(t)]

NotifySyncOfAny(w) == [caller EXCEPT !.woken = TRUE]

\* syncCondt.notify_all(), lines 167 and 197: the caller is woken if it
\* waits for the sync of this worker
NotifySync(w) ==
    IF caller.op \in {"SyncWait", "Resume1Wait"} /\ caller.i = w
    THEN [caller EXCEPT !.woken = TRUE]
    ELSE caller

Me == threads[cur]

AfterSyncPointSkipsReset(t) ==
    [t EXCEPT !.pc = "loop", !.gotResume = FALSE, !.woken = FALSE]

AfterSyncPointKeepsResume(t) ==
    IF t.pc \in {"run", "wait0"}
    THEN [t EXCEPT !.pc = "loop", !.woken = FALSE]
    ELSE [t EXCEPT !.pc = "reset", !.woken = FALSE]

\* where _Run goes on after a sync point: line 176 after the first one, the
\* reset pass after the one that follows a tick pass
AfterSyncPoint(t) ==
    IF t.pc \in {"run", "wait0"}
    THEN [t EXCEPT !.pc = "loop", !.gotResume = FALSE, !.woken = FALSE]
    ELSE [t EXCEPT !.pc = "reset", !.gotResume = FALSE, !.woken = FALSE]

ResetPassBegins(t) == IF t.pc \in {"run", "wait0"} THEN pos ELSE CircuitSize + 1

\* CircuitThread::_Run, lines 164-172 and 194-202: under resumeMutex the
\* worker sets gotSync, notifies, and waits for the resume unless it has it
RunSync ==
    /\ cur \in DOMAIN threads /\ stack = <<>>
    /\ Me.pc = "run" \/ (Me.pc = "tick" /\ pos = 0)
    /\ LET t == [Me EXCEPT !.gotSync = TRUE] IN
       IF t.gotResume
       THEN /\ threads' = [threads EXCEPT ![cur] = AfterSyncPoint(t)]
            /\ pos' = ResetPassBegins(t)
       ELSE /\ threads' = [threads EXCEPT ![cur] =
                              [t EXCEPT !.pc = IF t.pc = "run" THEN "wait0" ELSE "wait1"]]
            /\ pos' = pos
    /\ caller' = NotifySync(cur)
    /\ ev' = CallEvent("RunSync", 1, curBuf)
    /\ UNCHANGED <<parked, stopFrame>>

\* CircuitThread::_Run, lines 171-173 and 201-203: the worker is woken and
\* resets gotResume
RunResumed ==
    /\ cur \in DOMAIN threads
    /\ Waiting(Me) /\ Me.woken
    /\ threads' = [threads EXCEPT ![cur] = AfterSyncPoint(Me)]
    /\ pos' = ResetPassBegins(Me)
    /\ ev' = CallEvent("RunResumed", 1, curBuf)
    /\ UNCHANGED <<caller, parked, stopFrame>>

\* CircuitThread::_Run, line 176: while ( !thread->stop ), reached from the
\* first sync point or at the end of a reset pass
RunLoop ==
    /\ cur \in DOMAIN threads /\ stack = <<>>
    /\ Me.pc = "loop" \/ (Me.pc = "reset" /\ pos = 1)
    /\ LET t == IF Me.pc = "reset" THEN [Me EXCEPT !.resetPasses = @ + 1] ELSE Me IN
       IF t.stop
       THEN /\ threads' = [threads EXCEPT ![cur] = [t EXCEPT !.pc = "exit"]]
            /\ pos' = 0
       ELSE /\ threads' = [threads EXCEPT ![cur] =
                              [t EXCEPT !.pc = "tick", !.tickPasses = @ + 1]]
            /\ pos' = 1
    /\ ev' = CallEvent("RunLoop", 1, curBuf)
    /\ UNCHANGED <<caller, parked, stopFrame>>

\* CircuitThread::_Run, lines 188-191: the tick pass
RunTick ==
    /\ cur \in DOMAIN threads /\ Me.pc = "tick"
    /\ TickComponent(TRUE)

\* CircuitThread::_Run, lines 206-209: the reset pass
RunReset ==
    /\ cur \in DOMAIN threads /\ Me.pc = "reset"
    /\ ResetComponent(TRUE)

\* CircuitThread::_Run, line 213: stopped = true, and the thread ends
RunExit ==
    /\ cur \in DOMAIN threads
    /\ Me.pc = "exit"
    /\ threads' = [threads EXCEPT ![cur] = [Me EXCEPT !.pc = "returned", !.stopped = TRUE]]
    /\ ev' = CallEvent("RunExit", 1, curBuf)
    /\ UNCHANGED <<caller, parked, pos, stopFrame>>

\* the caller's next thread in a loop over _threads, or the step after the
\* loop
NextThread(loop, after) ==
    IF caller.i < Len(threads)
    THEN [caller EXCEPT !.op = loop, !.i = @ + 1, !.woken = FALSE]
    ELSE [caller EXCEPT !.op = after, !.i = 1, !.woken = FALSE]

\* the caller returns from SyncAndResume: to Stop's joins, or to its caller
Returned == [caller EXCEPT !.op = IF caller.inStop THEN "Join" ELSE "idle", !.i = 1,
                           !.woken = FALSE]

\* a call of CircuitThread::SyncAndResume( mode ) (at most MaxPasses of them)
SyncAndResumeMode(mode) ==
    /\ caller.op = "idle" /\ threads # <<>>
    /\ caller.resumes < MaxPasses
    /\ caller' = [caller EXCEPT !.op = "Resume1", !.i = 1, !.resumes = @ + 1,
                                !.arg = mode]
    /\ ev' = CallEvent("SyncAndResume", 1, 0)
    /\ UNCHANGED <<threads, parked, pos, stopFrame>>

\* a call of SyncAndResume with the mode that is in use
SyncAndResumeCall == SyncAndResumeMode(caller.mode)

\* CircuitThread::Stop, lines 75-84: nothing to do if a thread has stopped,
\* else Sync()
StopCall ==
    /\ caller.op = "idle" /\ threads # <<>>
    /\ caller' = IF \E w \in DOMAIN threads : threads[w].stopped
                 THEN [caller EXCEPT !.op = "stopped"]
                 ELSE [caller EXCEPT !.op = "Sync", !.i = 1, !.inStop = TRUE,
                                     !.stopAt = threads[1].pc]
    /\ ev' = CallEvent("Stop", 1, 0)
    /\ UNCHANGED <<threads, parked, pos, stopFrame>>

\* where the caller is when Sync returns: in Stop at line 86, or back in the
\* code that called Sync
AfterSync == IF caller.inStop THEN "SetStop" ELSE "SyncReturn"

\* CircuitThread::Sync, lines 104-114: stopped and gotSync are read
SyncNext ==
    /\ caller.op = "Sync"
    /\ caller' = IF threads[caller.i].stopped
                 THEN [caller EXCEPT !.op = AfterSync, !.i = 1]
                 ELSE IF threads[caller.i].gotSync
                      THEN NextThread("Sync", AfterSync)
                      ELSE [caller EXCEPT !.op = "SyncLock"]
    /\ ev' = CallEvent("Sync", 1, 0)
    /\ UNCHANGED <<threads, parked, pos, stopFrame>>

\* CircuitThread::Sync, lines 116-121: under resumeMutex, wait for the sync
\* unless it is there
SyncLock ==
    /\ caller.op = "SyncLock"
    /\ caller' = IF threads[caller.i].gotSync
                 THEN NextThread("Sync", AfterSync)
                 ELSE [caller EXCEPT !.op = "SyncWait", !.woken = FALSE]
    /\ ev' = CallEvent("SyncLock", 1, 0)
    /\ UNCHANGED <<threads, parked, pos, stopFrame>>

\* CircuitThread::Sync, line 120: syncCondt.wait returns
SyncWake ==
    /\ caller.op = "SyncWait" /\ caller.woken
    /\ caller' = NextThread("Sync", AfterSync)
    /\ ev' = CallEvent("SyncWake", 1, 0)
    /\ UNCHANGED <<threads, parked, pos, stopFrame>>

\* CircuitThread::Stop, lines 86-91: stop = true on every thread, then
\* SyncAndResume
SetStop ==
    /\ caller.op = "SetStop"
    /\ threads' = [w \in DOMAIN threads |-> [threads[w] EXCEPT !.stop = TRUE]]
    /\ caller' = [caller EXCEPT !.op = "Resume1", !.i = 1, !.arg = caller.mode]
    /\ ev' = CallEvent("SetStop", 1, 0)
    /\ UNCHANGED <<parked, pos, stopFrame>>

\* CircuitThread::SyncAndResume, lines 127-139: return if the thread has
\* stopped; a sync that is there is taken down under resumeMutex
Resume1 ==
    /\ caller.op = "Resume1"
    /\ IF threads[caller.i].stopped
       THEN caller' = Returned /\ threads' = threads
       ELSE IF threads[caller.i].gotSync
            THEN /\ threads' = [threads EXCEPT ![caller.i].gotSync = FALSE]
                 /\ caller' = NextThread("Resume1", "SetMode")
            ELSE /\ caller' = [caller EXCEPT !.op = "Resume1Lock"]
                 /\ threads' = threads
    /\ ev' = CallEvent("Resume1", 1, 0)
    /\ UNCHANGED <<parked, pos, stopFrame>>

\* CircuitThread::SyncAndResume, lines 141-147: under resumeMutex, wait for
\* the sync unless it is there
Resume1Lock ==
    /\ caller.op = "Resume1Lock"
    /\ IF threads[caller.i].gotSync
       THEN /\ threads' = [threads EXCEPT ![caller.i].gotSync = FALSE]
            /\ caller' = NextThread("Resume1", "SetMode")
       ELSE /\ caller' = [caller EXCEPT !.op = "Resume1Wait", !.woken = FALSE]
            /\ threads' = threads
    /\ ev' = CallEvent("Resume1Lock", 1, 0)
    /\ UNCHANGED <<parked, pos, stopFrame>>

\* CircuitThread::SyncAndResume, lines 145-147: syncCondt.wait returns and
\* the sync is taken down
Resume1Wake ==
    /\ caller.op = "Resume1Wait" /\ caller.woken
    /\ threads' = [threads EXCEPT ![caller.i].gotSync = FALSE]
    /\ caller' = NextThread("Resume1", "SetMode")
    /\ ev' = CallEvent("Resume1Wake", 1, 0)
    /\ UNCHANGED <<parked, pos, stopFrame>>

\* CircuitThread::SyncAndResume, line 150: _mode = mode
SetMode ==
    /\ caller.op = "SetMode"
    /\ caller' = [caller EXCEPT !.op = "Resume2", !.mode = caller.arg]
    /\ ev' = CallEvent("SetMode", 1, 0)
    /\ UNCHANGED <<threads, parked, pos, stopFrame>>

\* CircuitThread::SyncAndResume, lines 152-156: gotResume = true and
\* notify_all, thread by thread, outside resumeMutex
Resume2 ==
    /\ caller.op = "Resume2"
    /\ threads' = [threads EXCEPT ![caller.i] =
                        NotifyAll([@ EXCEPT !.gotResume = TRUE, !.released = @ + 1])]
    /\ caller' = IF caller.i < Len(threads) THEN [caller EXCEPT !.i = @ + 1] ELSE Returned
    /\ ev' = CallEvent("Resume2", 1, 0)
    /\ UNCHANGED <<parked, pos, stopFrame>>

\* CircuitThread::Stop, lines 93-99: join, thread by thread
Join ==
    /\ caller.op = "Join"
    /\ threads[caller.i].pc = "returned"
    /\ threads' = [threads EXCEPT ![caller.i].joined = TRUE]
    /\ caller' = NextThread("Join", "stopped")
    /\ ev' = CallEvent("Join", 1, 0)
    /\ UNCHANGED <<parked, pos, stopFrame>>

\* a step of the caller inside SyncAndResume or Stop
CallerRun ==
    \/ SyncNext
    \/ SyncLock
    \/ SyncWake
    \/ SetStop
    \/ Resume1
    \/ Resume1Lock
    \/ Resume1Wake
    \/ SetMode
    \/ Resume2
    \/ Join

\* a step of the running worker in _Run, or in Tick of the component
WorkerRun ==
    \/ RunSync
    \/ RunResumed
    \/ RunLoop
    \/ RunTick
    \/ RunReset
    \/ RunExit
    \/ SetTickStarted
    \/ SetTicking
    \/ DoTickClear
    \/ DoTickEnter
    \/ DoTickProcess

NextStop ==
    \/ \E threadsPerBuffer \in 1..ThreadsPerBuffer : Start(threadsPerBuffer)
    \/ SyncAndResumeCall
    \/ StopCall
    \/ CallerRun
    \/ \E w \in 1..ThreadsPerBuffer : Switch(w)
    \/ WorkerRun

SpecStop == InitStop /\ [][NextStop]_vars

\* The caller is a thread that goes on inside a call, and every worker is an
\* operating-system thread that is scheduled again and again.  Nothing makes
\* the caller call SyncAndResume or Stop.
FairStop ==
    /\ WF_vars(CallerRun)
    /\ \A w \in 1..ThreadsPerBuffer : WF_vars(Switch(w)) /\ SF_vars(cur = w /\ WorkerRun)

SpecStopFair == SpecStop /\ FairStop

\* ------------------------ specification: components given pools one by one
\* The components are wired, then ticked on their single buffer; between
\* ticks a caller gives one of them a pool of one buffer, a pool without
\* threads, or a null pool.
SingleBufferPools ==
    {NoPool} \cup [bufferCount : 0..1, threadsPerBuffer : 0..MaxThreads]

InitPools == Constructed /\ cur = 1 /\ parked = <<>> /\ rewire = 0

NextPools ==
    \/ \E c \in Comps, from \in Comps, fromOutput \in Outputs, toInput \in Inputs :
            ConnectInputValid(c, from, fromOutput, toInput)
    \/ \E c \in Comps, pool \in SingleBufferPools : SetThreadPoolCall(c, pool)
    \/ StartTick
    \/ TickComponent(FALSE)
    \/ SetTickStarted
    \/ PoolTickSource
    \/ PoolTickReturned
    \/ PoolDispatch
    \/ SetTicking
    \/ DoTickSource
    \/ DoTickGetOutput
    \/ DoTickClear
    \/ DoTickEnter
    \/ DoTickProcess
    \/ \E c \in Comps : TaskGetOutput(c, 0)
    \/ \E c \in Comps : TaskClear(c, 0)
    \/ \E c \in Comps : TaskEnter(c, 0)
    \/ \E c \in Comps : TaskProcess(c, 0)
    \/ ResetComponent(FALSE)

SpecPools == InitPools /\ [][NextPools]_vars

\* ------------------------------------------------------ claims on wiring
\* number of input wires, over all live components, whose source is output o of c
RECURSIVE CountFrom(_, _, _)
CountFrom(wires, c, o) ==
    IF wires = <<>> THEN 0
    ELSE (IF Head(wires).fromComponent = c /\ Head(wires).fromOutput = o THEN 1 ELSE 0)
         + CountFrom(Tail(wires), c, o)

RECURSIVE WireCountUpTo(_, _, _)
WireCountUpTo(d, c, o) ==
    IF d = 0 THEN 0
    ELSE (IF alive[d] THEN CountFrom(inputWires[d], c, o) ELSE 0)
         + WireCountUpTo(d - 1, c, o)

WireCount(c, o) == WireCountUpTo(CircuitSize, c, o)

TotalsMatchWires ==
    \A c \in Comps : alive[c] =>
        \A b \in DOMAIN refs[c] : \A o \in Outputs :
            refs[c][b][o].total = WireCount(c, o)

\* C6: after any sequence of ConnectInput, DisconnectInput (both overloads),
\* DisconnectAllInputs, destruction and SetThreadPool, every live component's
\* total for output o, in every buffer, is the number of input wires in the
\* graph whose source is that output; and DisconnectAllInputs leaves the
\* component with no input wire.
C6_TotalsEqualWireCount ==
    /\ TotalsMatchWires
    /\ ev.kind = "DisconnectAllInputs" => inputWires[ev.c] = <<>>

\* C7: ConnectInput returns false and changes no input wire and no ref total
\* whenever fromOutput or toInput is outside its valid range, and returns
\* true only when both are valid.
C7_InvalidIndicesRejected ==
    [][ev'.kind = "ConnectInput" =>
          /\ ev'.status = "invalid" =>
                (ev'.result = FALSE /\ UNCHANGED <<inputWires, refs>>)
          /\ ev'.result = TRUE => ev'.status = "valid"]_vars

AtMostOneWirePerInput ==
    \A c \in Comps : \A i, j \in 1..Len(inputWires[c]) :
        i # j => inputWires[c][i].toInput # inputWires[c][j].toInput


\* the total of output o of x after a successful ConnectInput on c, given
\* the wires and totals before it
TotalAfterConnect(x, b, o, c, from, fromOutput, toInput) ==
    refs[x][b][o].total
    - Cardinality({i \in 1..Len(inputWires[c]) :
            /\ inputWires[c][i].toInput = toInput
            /\ inputWires[c][i].fromComponent = x
            /\ inputWires[c][i].fromOutput = o})
    + (IF x = from /\ o = fromOutput THEN 1 ELSE 0)

\* C8: a successful ConnectInput removes the wire already feeding toInput
\* (decrementing its source's total in every buffer), appends the new wire
\* and increments the new source's total in every buffer; hence no input is
\* ever fed by two wires, also for repeated and self connections.
C8_ConnectReplacesWire ==
    /\ []AtMostOneWirePerInput
    /\ [][(ev'.kind = "ConnectInput" /\ ev'.result = TRUE) =>
            LET c == ev'.c
                in == ev'.toInput
            IN
            /\ inputWires'[c] =
                 Append(SelectSeq(inputWires[c], LAMBDA w : w.toInput # in),
                        Wire(ev'.from, ev'.fromOutput, in))
            /\ \A d \in Comps \ {c} : inputWires'[d] = inputWires[d]
            /\ \A x \in Comps : \A b \in DOMAIN refs[x] : \A o \in Outputs :
                 /\ refs'[x][b][o].total =
                      TotalAfterConnect(x, b, o, c, ev'.from, ev'.fromOutput, in)
                 /\ refs'[x][b][o].consumed = refs[x][b][o].consumed]_vars

\* a component wired to itself, having just replaced the wire into an input
C8_Witness ==
    /\ ev.kind = "ConnectInput" /\ ev.result = TRUE
    /\ ev.from = ev.c
    /\ ev.b = 1
    /\ Len(inputWires[ev.c]) = 2

\* ------------------------------------------------- claims on ref counters
\* a circuit tick on buffer curBuf has just completed: the last component
\* was reset by the last step
TickCompleted == pos = 0 /\ ev.kind = "Reset"

CongruentZero(ref) ==
    IF ref.total = 0 THEN ref.consumed = 0 ELSE ref.consumed % ref.total = 0

\* C4 as stated: after every completed circuit tick on buffer b, for every
\* component output, consumed is congruent to 0 modulo total, on every
\* graph, feedback wires and sporadic producers included.
C4_FanOutConservation ==
    TickCompleted =>
        \A c \in Comps : \A o \in Outputs : CongruentZero(refs[c][curBuf][o])

\* C4 amended: after every completed circuit tick on buffer b, consumed is 0
\* (hence congruent to 0 modulo total) for every component output, provided
\* no tick so far ran on a graph with a directed cycle; sporadic producers
\* and rewiring between ticks included.
C4_FanOutConservationAcyclic ==
    (TickCompleted /\ ~fedBack) =>
        \A c \in Comps : \A o \in Outputs : refs[c][curBuf][o].consumed = 0

\* an acyclic fan-out of 2 has been read by both readers and the tick is over
C4_Witness ==
    /\ TickCompleted /\ ~fedBack
    /\ \E c \in Comps : refs[c][curBuf][0].total = 2 /\ ~HasValue(outputBuses[c][curBuf], 0)
    /\ \E c \in Comps : HasValue(outputBuses[c][curBuf], 0)

\* C5: in every reachable state, for every (component, output, buffer),
\* 0 <= consumed <= total, also after quiescent rewiring and SetThreadPool.
C5_ConsumedWithinTotal ==
    \A c \in Comps : \A b \in DOMAIN refs[c] : \A o \in Outputs :
        /\ 0 <= refs[c][b][o].consumed
        /\ refs[c][b][o].consumed <= refs[c][b][o].total

\* ------------------------------------------------------- claims on Tick
\* C1: Tick( b ) returns false exactly when the component's status on b is
\* TickStarted at the call, and true when it is NotTicked or Ticking.
C1_TickFalseIffTickStarted ==
    ev.kind \in {"Tick", "TickReturn"} =>
        (ev.result = FALSE <=> ev.status = TickStarted)

\* a Tick call reached a component in its pull phase and returned false
C1_Witness ==
    ev.kind = "Tick" /\ ev.status = TickStarted /\ ev.result = FALSE

ProcessedAtMostOnce ==
    \A c \in Comps : \A b \in DOMAIN processed[c] : processed[c][b] <= 1

\* C2: a Tick( b ) call on a component that is TickStarted or Ticking runs no
\* Process_ and changes neither the status, the buses nor the ref counters;
\* hence Process_ runs at most once per (component, buffer) between two
\* Reset calls.
C2_NoReentrantProcess ==
    /\ []ProcessedAtMostOnce
    /\ [][(ev'.kind = "Tick" /\ ev'.status \in {TickStarted, Ticking}) =>
            UNCHANGED <<tickStatuses, inputBuses, outputBuses, refs, processed,
                        taskPc>>]_vars

\* a component that has processed is ticked again before its Reset
C2_Witness ==
    /\ ev.kind = "Tick" /\ ev.status = Ticking
    /\ processed[ev.c][ev.b] = 1

InFrames(s, c, b) == \E k \in 1..Len(s) : s[k].c = c /\ s[k].b = b

\* some thread is inside Tick( b ) of c
OnStack(c, b) ==
    \/ InFrames(stack, c, b)
    \/ \E w \in DOMAIN parked : InFrames(parked[w].stack, c, b)

\* C3: the status of (component, buffer) changes only NotTicked ->
\* TickStarted -> Ticking -> NotTicked, and goes back to NotTicked only in
\* Reset, after the tick's work (DoTick with its Process_) has finished;
\* with or without pool, driven by one thread or by several CircuitThread
\* workers.
C3_StatusCycle ==
    [][\A c \in Comps : \A b \in DOMAIN tickStatuses[c] \cap DOMAIN tickStatuses'[c] :
        tickStatuses'[c][b] # tickStatuses[c][b] =>
            \/ tickStatuses[c][b] = NotTicked /\ tickStatuses'[c][b] = TickStarted
            \/ tickStatuses[c][b] = TickStarted /\ tickStatuses'[c][b] = Ticking
            \/ /\ tickStatuses[c][b] = Ticking /\ tickStatuses'[c][b] = NotTicked
               /\ ev'.kind = "Reset" /\ ev'.c = c /\ ev'.b = b
               /\ taskPc[c][b] = 0 /\ ~OnStack(c, b)
               /\ processed[c][b] = 1]_vars

\* ------------------------------------------------- claims on GetOutput
\* C9: a GetOutput call on an empty output cell leaves the destination
\* input cell, the source output cell and the consumed counter unchanged.
C9_EmptyOutputUntouched ==
    [][(ev'.kind = "GetOutput"
        /\ outputBuses[ev'.from][ev'.b][ev'.fromOutput] = Empty) =>
            /\ inputBuses'[ev'.c][ev'.b][ev'.toInput] = inputBuses[ev'.c][ev'.b][ev'.toInput]
            /\ outputBuses'[ev'.from][ev'.b][ev'.fromOutput] = Empty
            /\ refs'[ev'.from][ev'.b][ev'.fromOutput] = refs[ev'.from][ev'.b][ev'.fromOutput]]_vars

\* a wired reader has just read an empty output
C9_Witness ==
    /\ ev.kind = "GetOutput"
    /\ outputBuses[ev.from][ev.b][ev.fromOutput] = Empty
    /\ inputBuses[ev.c][ev.b][ev.toInput] = Empty
    /\ ev.from # ev.c

SelfLoops(c) ==
    {i \in 1..Len(inputWires[c]) :
        /\ inputWires[c][i].fromComponent = c
        /\ ValidIndices(c, c, inputWires[c][i].fromOutput, inputWires[c][i].toInput)}

\* the buffer of the circuit tick before a tick on buffer b (round robin)
PrevBuffer(c, b) == IF b = 0 THEN bufferCount[c] - 1 ELSE b - 1

\* C11 as stated: when a component with a self-loop enters Process_ in tick
\* N, the looped input holds the value the component wrote to the looped
\* output in tick N-1, the circuit tick before (which ran on the previous
\* buffer of the round robin); stated for ticks N-1 that wrote a value
C11_FeedbackReadsPreviousTick ==
    [][ev'.kind = "ProcessEnter" =>
        \A i \in SelfLoops(ev'.c) :
            LET w == inputWires[ev'.c][i]
                prev == lastOut[ev'.c][PrevBuffer(ev'.c, ev'.b)][w.fromOutput]
            IN prev # Empty => inputBuses[ev'.c][ev'.b][w.toInput] = prev]_vars

\* C11 amended: when a component with a self-loop enters Process_ in a tick
\* on buffer b, the looped input holds the value the component wrote to the
\* looped output in the tick before on the same buffer b, and is absent when
\* that tick wrote nothing or when it is the first tick on b
C11_FeedbackReadsPreviousTickOfBuffer ==
    [][ev'.kind = "ProcessEnter" =>
        \A i \in SelfLoops(ev'.c) :
            LET w == inputWires[ev'.c][i] IN
            inputBuses[ev'.c][ev'.b][w.toInput] = lastOut[ev'.c][ev'.b][w.fromOutput]]_vars

\* component 2, looped from output 0 to input 1, enters Process_ on the
\* second of two buffers with the value of the earlier tick on that buffer
C11_Witness ==
    /\ ev.kind = "ProcessEnter" /\ ev.c = 2 /\ ev.b = 1
    /\ bufferCount[2] = 2
    /\ \E i \in SelfLoops(2) : inputWires[2][i].toInput = 1
    /\ inputBuses[2][1][1] # Empty
    /\ lastOut[2][1][0] # Empty

\* ------------------------------------------- claims on the order of a tick
\* the source has run Process_ in the tick in progress on buffer b: it has
\* processed since its last Reset, or the reset pass of this tick is already
\* past it (Reset waits for the component's DoTick)
ProcessedInTick(from, b) ==
    \/ processed[from][b] = 1
    \/ curBuf = b /\ pos > CircuitSize + from

C17_ResetPostcondition ==
    [][ev'.kind = "Reset" =>
        /\ taskPc'[ev'.c][ev'.b] = 0
        /\ \A i \in DOMAIN inputBuses'[ev'.c][ev'.b] :
              inputBuses'[ev'.c][ev'.b][i] = Empty
        /\ tickStatuses'[ev'.c][ev'.b] = NotTicked]_vars

\* Reset has returned on a component with a pool whose DoTick of this tick
\* read a value from its source
C17_Witness ==
    /\ ev.kind = "Reset" /\ HasPool(ev.c)
    /\ Len(inputWires[ev.c]) > 0
    /\ \E i \in 1..Len(inputWires[ev.c]) :
          LET w == inputWires[ev.c][i] IN
          /\ ValidIndices(ev.c, w.fromComponent, w.fromOutput, w.toInput)
          /\ processed[w.fromComponent][ev.b] = 1
          /\ lastOut[w.fromComponent][ev.b][w.fromOutput] # Empty


\* ------------------------------------------------ claims on SetThreadPool
\* C18: after SetThreadPool with a null pool or with a pool whose
\* threadsPerBuffer is 0 the component has no pool, whatever pool it had
\* before, and no Tick of the component dispatches a DoTick to a pool as
\* long as it is given no other pool
C18_NullPoolRemovesPool ==
    /\ [][(ev'.kind = "SetThreadPool" /\ ev'.status \in {"null", "noThreads"})
            => threadPool'[ev'.c] = NoPool]_vars
    /\ [][\A c \in Comps :
            (threadPool[c] = NoPool /\ threadPool'[c] = NoPool)
                => taskPc'[c] = taskPc[c]]_vars


\* ------------------------------------------- claims on the feedback adder
Triangular(n) == (n * (n + 1)) \div 2

\* C12: in the feedback-adder circuit, listed counter, adder, passthrough,
\* probe, the probe enters Process_ on tick n (the counter has then emitted
\* 0..n) with the sum 0+1+...+n on its input, in Series mode and in Parallel
\* mode
C12_ProbeSeesTriangular ==
    [][(ev'.kind = "ProcessEnter" /\ subclass[ev'.c] = FeedbackProbe
        /\ FeedbackAdderBuilt) =>
            inputBuses[ev'.c][ev'.b][0] = IntSignal(Triangular(count[1] - 1))]_vars

\* the probe enters Process_ on a pool worker in the last tick, with
\* 0+1+...+(MaxTicks-1) on its input
C12_Witness ==
    /\ ev.kind = "ProcessEnter" /\ subclass[ev.c] = FeedbackProbe
    /\ HasPool(ev.c)
    /\ count[1] = MaxTicks
    /\ inputBuses[ev.c][ev.b][0] = IntSignal(Triangular(MaxTicks - 1))
    /\ Triangular(MaxTicks - 1) > 2


\* ------------------------------------------------- claims on the pipeline
\* some thread is executing Process_ of c on buffer b
InProcess(c, b) ==
    \/ \E k \in 1..Len(stack) : stack[k] = Frame(c, b, "process", stack[k].i)
    \/ \E w \in DOMAIN parked : \E k \in 1..Len(parked[w].stack) :
          parked[w].stack[k] = Frame(c, b, "process", parked[w].stack[k].i)
    \/ b \in DOMAIN taskPc[c] /\ taskPc[c][b] = Len(inputWires[c]) + 3

BuffersInProcess(c) == {b \in DOMAIN taskPc[c] : InProcess(c, b)}

\* C14: Process_ of an InOrder component with more than one buffer executes
\* on at most one buffer at a time
C14_OneBufferInProcess ==
    \A c \in Comps : NeedsRelease(c) => Cardinality(BuffersInProcess(c)) <= 1

\* C15: an InOrder component with B > 1 buffers enters Process_ on buffer 0
\* first after SetThreadPool, and then on the buffer after the one it
\* entered last, modulo B
C15_EnteredInBufferOrder ==
    [][(ev'.kind = "ProcessEnter" /\ NeedsRelease(ev'.c)) =>
            ev'.b = (entered[ev'.c] + 1) % bufferCount[ev'.c]]_vars


\* some thread is in _WaitForRelease( b ) of the InOrder component c
WaitingForRelease(c, b) ==
    /\ c \in Comps /\ b \in DOMAIN taskPc[c] /\ NeedsRelease(c)
    /\ \/ \E k \in 1..Len(stack) : stack[k] = Frame(c, b, "waitForRelease", stack[k].i)
       \/ \E w \in DOMAIN parked : \E k \in 1..Len(parked[w].stack) :
             parked[w].stack[k] = Frame(c, b, "waitForRelease", parked[w].stack[k].i)
       \/ taskPc[c][b] = Len(inputWires[c]) + 2

\* C16: with the ticks issued round robin from buffer 0, a thread that
\* waits in _WaitForRelease of an InOrder component is released and runs
\* Process_
C16_WaiterRunsProcess ==
    \A c \in 1..NumComps, b \in 0..(MaxBuffers - 1) :
        WaitingForRelease(c, b) ~> (c \in Comps /\ InProcess(c, b))


\* ------------------------------------------ claims on CircuitThread::Stop
\* Stop has returned after stopping the workers
StopReturned == caller.op = "stopped" /\ caller.inStop

Stopped(t) == t.pc = "returned" /\ t.stopped /\ t.joined

C20_OnePassPerResume ==
    StopReturned =>
        /\ \A w \in DOMAIN threads :
              /\ threads[w].tickPasses = caller.resumes
              /\ threads[w].resetPasses = caller.resumes
        /\ count[1] = caller.resumes


\* ------------------------------- claims of the concurrent readers and buses
\* C21: with several CircuitThread workers on one component list and buffer,
\* Process_ of a component runs at most once between two Resets (the step
\* that counts a Process_ starts from a count of 0), and no worker Resets a
\* component while another worker is inside Tick of that component.
C21_OneProcessPerPass ==
    [][/\ \A c \in Comps : \A b \in DOMAIN processed[c] \cap DOMAIN processed'[c] :
            processed'[c][b] > processed[c][b] => processed[c][b] = 0
       /\ (ev'.kind = "Reset" /\ pos' # pos) => ~OnStack(ev'.c, ev'.b)]_vars

\* ------------------- specification: pool readers of one output, step by step
\* internal::Component::GetOutput in the branch taken with a pool and
\* total > 1 (lines 494-506) holds the output's mutex for the increment of
\* consumed and for the copy, and releases it before the final request's
\* MoveSignal (line 519).  Here the request and the move are two steps of the
\* reader's task; between them the position of the task is -i, i being the
\* wire whose final request has still to move.
Moving(c, b) == b \in DOMAIN taskPc[c] /\ taskPc[c][b] < 0

MoveWire(c, b) == inputWires[c][0 - taskPc[c][b]]

\* the readers that have made the final request on output cell
\* (from, b, fromOutput) and have not yet moved it
Movers(from, b, fromOutput) ==
    {c \in Comps : /\ Moving(c, b)
                   /\ MoveWire(c, b).fromComponent = from
                   /\ MoveWire(c, b).fromOutput = fromOutput}

\* internal::Component::GetOutput, line 494: threadPool && ref.first > 1
GetOutputLocks(from, b, fromOutput) ==
    threadPool[from] # NoPool /\ refs[from][b][fromOutput].total > 1

\* what toBus.SetSignal( toInput, signal ) of line 499 can read from the
\* output cell: the cell, or, while a final reader is exchanging the cell
\* with its input (an unsynchronised write), the content being swapped in
CopyReads(from, b, fromOutput) ==
    {outputBuses[from][b][fromOutput]} \cup
    {inputBuses[m][b][MoveWire(m, b).toInput] : m \in Movers(from, b, fromOutput)}

\* Component::_DoTick, lines 395-408 (pool), with GetOutput up to the release
\* of the mutex (lines 486-511)
TaskRequest(c, b) ==
    /\ b \in DOMAIN taskPc[c]
    /\ taskPc[c][b] \in 1..Len(inputWires[c])
    /\ IF taskPc[c][b] \in feedbackWires[c][b]
       THEN feedbackWires' = [feedbackWires EXCEPT ![c][b] = @ \ {taskPc[c][b]}]
       ELSE /\ taskPc[TaskWire(c, b).fromComponent][b] = 0
            /\ UNCHANGED feedbackWires
    /\ LET from == TaskWire(c, b).fromComponent
           fromOutput == TaskWire(c, b).fromOutput
           toInput == TaskWire(c, b).toInput
           ref == refs[from][b][fromOutput]
       IN
       IF ~GetOutputLocks(from, b, fromOutput)
       THEN /\ GetOutput(from, b, fromOutput, c, toInput)
            /\ taskPc' = [taskPc EXCEPT ![c][b] = @ + 1]
            /\ ev' = Event("GetOutput", c, b, from, fromOutput, toInput, NotTicked, TRUE)
       ELSE IF ~GetOutputReads(from, b, fromOutput)
       THEN /\ UNCHANGED <<inputBuses, outputBuses, refs>>
            /\ taskPc' = [taskPc EXCEPT ![c][b] = @ + 1]
            /\ ev' = Event("GetOutput", c, b, from, fromOutput, toInput, NotTicked, FALSE)
       ELSE IF ~IsFinalRequest(ref.consumed, ref.total)
       THEN /\ refs' = [refs EXCEPT ![from][b][fromOutput].consumed = @ + 1]
            /\ \E signal \in CopyReads(from, b, fromOutput) :
                   inputBuses' = [inputBuses EXCEPT ![c][b] = SetSignal(@, toInput, signal)]
            /\ UNCHANGED outputBuses
            /\ taskPc' = [taskPc EXCEPT ![c][b] = @ + 1]
            /\ ev' = Event("Copy", c, b, from, fromOutput, toInput, NotTicked, TRUE)
       ELSE /\ refs' = [refs EXCEPT ![from][b][fromOutput].consumed = 0]
            /\ UNCHANGED <<inputBuses, outputBuses>>
            /\ taskPc' = [taskPc EXCEPT ![c][b] = 0 - @]
            /\ ev' = Event("FinalRequest", c, b, from, fromOutput, toInput, NotTicked, TRUE)
    /\ UNCHANGED <<threads, caller, alive, subclass, queue, processOrder, bufferCount, threadPool, inputWires,
                   tickStatuses, releaseFlags, tickVars, processed, lastOut, count, entered>>

\* internal::Component::GetOutput, line 519: the final request's MoveSignal,
\* outside the mutex
TaskMove(c, b) ==
    /\ Moving(c, b)
    /\ LET w == MoveWire(c, b)
           m == GetOutputMove(inputBuses[c][b], w.toInput,
                              outputBuses[w.fromComponent][b][w.fromOutput])
       IN
       /\ inputBuses' = [inputBuses EXCEPT ![c][b] = m.bus]
       /\ outputBuses' = [outputBuses EXCEPT ![w.fromComponent][b][w.fromOutput] = m.signal]
       /\ ev' = Event("Move", c, b, w.fromComponent, w.fromOutput, w.toInput, NotTicked, TRUE)
    /\ taskPc' = [taskPc EXCEPT ![c][b] = 1 - @]
    /\ UNCHANGED <<threads, caller, alive, subclass, queue, processOrder, bufferCount, threadPool, inputWires,
                   refs, feedbackWires,
                   tickStatuses, releaseFlags, tickVars, processed, lastOut, count, entered>>

\* The components, each with NumInputs inputs, are wired (with valid indices)
\* and given a pool with one buffer before the first tick, and may be rewired
\* between two ticks.
InitReaders ==
    /\ ConstructedAs([c \in 1..NumComps |-> Wide],
                     [c \in 1..NumComps |-> IF c = 1 THEN InOrder ELSE OutOfOrder])
    /\ cur = 1 /\ parked = <<>> /\ rewire = MaxRewire

NextReaders ==
    \/ \E c \in Comps, from \in Comps, fromOutput \in Outputs, toInput \in Inputs :
            ConnectInputValid(c, from, fromOutput, toInput)
    \/ SetBufferCountFirst(1, MaxThreads)
    \/ StartTick
    \/ TickComponent(FALSE)
    \/ SetTickStarted
    \/ PoolTickSource
    \/ PoolTickReturned
    \/ PoolDispatch
    \/ SetTicking
    \/ DoTickSource
    \/ DoTickGetOutput
    \/ DoTickClear
    \/ DoTickEnter
    \/ DoTickProcess
    \/ \E c \in Comps, b \in 0..(MaxBuffers - 1) : TaskRequest(c, b)
    \/ \E c \in Comps, b \in 0..(MaxBuffers - 1) : TaskMove(c, b)
    \/ \E c \in Comps, b \in 0..(MaxBuffers - 1) : TaskClear(c, b)
    \/ \E c \in Comps, b \in 0..(MaxBuffers - 1) : TaskEnter(c, b)
    \/ \E c \in Comps, b \in 0..(MaxBuffers - 1) : TaskProcess(c, b)
    \/ ResetComponent(FALSE)

SpecReaders == InitReaders /\ [][NextReaders]_vars

\* C22: in pool mode, of the readers of an output cell with total > 1 at most
\* one at a time is the final one that moves the cell, and no reader copies
\* the cell while another reader has its move of that cell still to do.
C22_NoCopyDuringMove ==
    /\ [](\A from \in Comps : \A b \in DOMAIN outputBuses[from] :
            \A fromOutput \in DOMAIN outputBuses[from][b] :
                Cardinality(Movers(from, b, fromOutput)) <= 1)
    /\ [][(ev'.kind = "Copy" /\ taskPc' # taskPc) =>
            Movers(ev'.from, ev'.b, ev'.fromOutput) = {}]_vars

\* ------------------------------------------------ claims on absent outputs
\* C23: when a component enters Process_ in a tick, every wired input whose
\* source (another component) has run Process_ in this tick of this buffer
\* and set no value on the wire's output is absent: no value of an earlier
\* tick is seen again, with or without pool, on graphs with or without
\* cycles.
C23_AbsentOutputSeenAbsent ==
    [][ev'.kind = "ProcessEnter" =>
        \A i \in 1..Len(inputWires[ev'.c]) :
            LET w == inputWires[ev'.c][i] IN
            (/\ ValidIndices(ev'.c, w.fromComponent, w.fromOutput, w.toInput)
             /\ w.fromComponent # ev'.c
             /\ ProcessedInTick(w.fromComponent, ev'.b)
             /\ lastOut[w.fromComponent][ev'.b][w.fromOutput] = Empty)
            => inputBuses[ev'.c][ev'.b][w.toInput] = Empty]_vars

\* component 2 enters Process_ with its input from component 1 absent in a
\* tick in which component 1 has set no value, while component 1's own input
\* still holds the value that its output had after the tick before
C23_Witness ==
    /\ ev.kind = "ProcessEnter" /\ ev.c = 2
    /\ \E i \in 1..Len(inputWires[2]) :
          /\ inputWires[2][i].fromComponent = 1
          /\ inputBuses[2][ev.b][inputWires[2][i].toInput] = Empty
    /\ Len(inputWires[1]) = 1 /\ inputWires[1][1].fromComponent = 1
    /\ processed[1][ev.b] = 1
    /\ lastOut[1][ev.b][0] = Empty
    /\ inputBuses[1][ev.b][0] # Empty

\* ----------------------------------------- claims on the life of an output
\* the step clears the outputs of (c, b) from the position right after the
\* last input wire and leaves its thread at the entry of Process_
ClearsBeforeProcess(c, b) ==
    IF taskPc[c][b] # 0
    THEN /\ taskPc[c][b] = Len(inputWires[c]) + 1
         /\ taskPc'[c][b] = Len(inputWires[c]) + 2
    ELSE /\ stack # <<>> /\ Top.c = c /\ Top.b = b
         /\ Top.i = Len(inputWires[c]) + 1
         /\ stack' # <<>> /\ Head(stack').pc = "waitForRelease"

\* C28: Reset( b ) changes neither output bus b nor the ref counters of the
\* component; an output cell of (c, b) that holds a value loses it only in
\* the clear of c's own DoTick( b ), which comes after every input wire of
\* that tick has been read and right before Process_, or by the move of a
\* reader's final request.
C28_OutputsOutliveReset ==
    [][/\ ev'.kind = "Reset" =>
            /\ outputBuses'[ev'.c][ev'.b] = outputBuses[ev'.c][ev'.b]
            /\ refs'[ev'.c][ev'.b] = refs[ev'.c][ev'.b]
       /\ ev'.kind = "Clear" => ClearsBeforeProcess(ev'.c, ev'.b)
       /\ \A c \in Comps : \A b \in DOMAIN outputBuses[c] \cap DOMAIN outputBuses'[c] :
            \A o \in DOMAIN outputBuses[c][b] :
                (outputBuses[c][b][o] # Empty /\ outputBuses'[c][b][o] = Empty) =>
                    \/ ev'.kind = "Clear" /\ ev'.c = c /\ ev'.b = b
                    \/ /\ ev'.kind = "GetOutput"
                       /\ ev'.from = c /\ ev'.b = b /\ ev'.fromOutput = o]_vars

\* Reset has returned on a component whose output still holds the value of
\* the tick, of which one of two references has been consumed
C28_Witness ==
    /\ ev.kind = "Reset"
    /\ outputBuses[ev.c][ev.b][0] # Empty
    /\ refs[ev.c][ev.b][0].total = 2
    /\ refs[ev.c][ev.b][0].consumed = 1

\* ------------------------------------------ specification: SignalBus calls
\* One SignalBus (input bus 0 of component 1) and one std::any outside it
\* (cell 0 of output bus 0 of component 2) under any sequence of SignalBus
\* calls, with indices from two below the first cell to one past NumInputs.
\* The event records the call: toInput the index given, status the size of
\* the bus before the call, fromOutput the pointer returned, result the
\* boolean returned.
BusIndices == (-2)..(NumInputs + 1)

BusSignals == {Empty} \cup {IntSignal(v) : v \in Values} \cup {FloatSignal(v) : v \in Values}

TheBus == inputBuses[1][0]

TheSignal == outputBuses[2][0][0]

busFrame == <<threads, caller, alive, subclass, queue, count, processOrder, bufferCount, threadPool,
              inputWires, refs, tickStatuses, feedbackWires, releaseFlags, taskPc,
              stack, retval, cur, parked, pos, curBuf, nextBuf, rewire, ticked,
              fedBack, processed, lastOut, entered>>

BusEvent(kind, signalIndex, pointer, result) ==
    Event(kind, 1, 0, 2, pointer, signalIndex, GetSignalCount(TheBus), result)

\* a call that writes the bus and leaves the signal outside it alone
BusWrite(kind, signalIndex, bus) ==
    /\ inputBuses' = [inputBuses EXCEPT ![1][0] = bus]
    /\ ev' = BusEvent(kind, signalIndex, NullPtr, TRUE)
    /\ UNCHANGED <<outputBuses, busFrame>>

\* a call that returns a value and writes nothing
BusRead(kind, signalIndex, pointer, result) ==
    /\ ev' = BusEvent(kind, signalIndex, pointer, result)
    /\ UNCHANGED <<inputBuses, outputBuses, busFrame>>

BusSetSignalCount(signalCount) ==
    BusWrite("SetSignalCount", signalCount, SetSignalCount(TheBus, signalCount))

BusGetSignal(signalIndex) ==
    BusRead("GetSignal", signalIndex, GetSignal(TheBus, signalIndex), TRUE)

BusHasValue(signalIndex) ==
    BusRead("HasValue", signalIndex, NullPtr, HasValue(TheBus, signalIndex))

BusGetValue(signalIndex) ==
    BusRead("GetValue", signalIndex, GetValue(TheBus, signalIndex), TRUE)

BusSetValue(signalIndex, newValue) ==
    BusWrite("SetValue", signalIndex, SetValue(TheBus, signalIndex, newValue))

BusMoveValue(signalIndex, newValue) ==
    BusWrite("MoveValue", signalIndex, MoveValue(TheBus, signalIndex, newValue))

BusSetSignal(toSignalIndex) ==
    BusWrite("SetSignal", toSignalIndex, SetSignal(TheBus, toSignalIndex, TheSignal))

BusMoveSignal(toSignalIndex) ==
    LET m == MoveSignal(TheBus, toSignalIndex, TheSignal) IN
    /\ inputBuses' = [inputBuses EXCEPT ![1][0] = m.bus]
    /\ outputBuses' = [outputBuses EXCEPT ![2][0][0] = m.signal]
    /\ ev' = BusEvent("MoveSignal", toSignalIndex, NullPtr, TRUE)
    /\ UNCHANGED busFrame

\* the owner of the signal outside the bus gives it a value
BusSetSource(newValue) ==
    /\ outputBuses' = [outputBuses EXCEPT ![2][0] = SetValue(@, 0, newValue)]
    /\ ev' = Event("SetSource", 2, 0, 2, NullPtr, 0, GetSignalCount(outputBuses[2][0]), TRUE)
    /\ UNCHANGED <<inputBuses, busFrame>>

InitBus == Constructed /\ cur = 1 /\ parked = <<>> /\ rewire = 0

NextBus ==
    \/ \E signalCount \in 0..NumInputs : BusSetSignalCount(signalCount)
    \/ \E signalIndex \in BusIndices : BusGetSignal(signalIndex)
    \/ \E signalIndex \in BusIndices : BusHasValue(signalIndex)
    \/ \E signalIndex \in BusIndices : BusGetValue(signalIndex)
    \/ \E signalIndex \in BusIndices, newValue \in BusSignals \ {Empty} :
            BusSetValue(signalIndex, newValue)
    \/ \E signalIndex \in BusIndices, newValue \in BusSignals \ {Empty} :
            BusMoveValue(signalIndex, newValue)
    \/ \E toSignalIndex \in BusIndices : BusSetSignal(toSignalIndex)
    \/ \E toSignalIndex \in BusIndices : BusMoveSignal(toSignalIndex)
    \/ \E newValue \in BusSignals \ {Empty} : BusSetSource(newValue)

SpecBus == InitBus /\ [][NextBus]_vars

\* ------------------------------------------------------ claims on SignalBus
IndexedCalls ==
    {"GetSignal", "HasValue", "GetValue", "SetValue", "MoveValue", "SetSignal",
     "MoveSignal"}

\* C25: a SignalBus call with an index outside [0, n), n the size of the bus,
\* negative indices included, changes no cell of the bus and not the source
\* signal; GetSignal and GetValue return null and HasValue returns false.
C25_OutOfRangeIsNoOp ==
    [][(/\ ev'.kind \in IndexedCalls
        /\ ev'.toInput \notin 0..(ev'.status - 1)) =>
            /\ inputBuses' = inputBuses
            /\ outputBuses' = outputBuses
            /\ ev'.kind \in {"GetSignal", "GetValue"} => ev'.fromOutput = NullPtr
            /\ ev'.kind = "HasValue" => ev'.result = FALSE]_vars

\* MoveSignal has been called with index -1 on a bus whose cells all hold a
\* value, the signal outside the bus holding one too
C25_Witness ==
    /\ ev.kind = "MoveSignal" /\ ev.toInput = -1
    /\ GetSignalCount(TheBus) = NumInputs
    /\ \A i \in DOMAIN TheBus : TheBus[i] # Empty
    /\ TheSignal # Empty

\* C26: after SetSignalCount( n ) the bus has n cells and every cell is empty
C26_SetSignalCountClears ==
    [][ev'.kind = "SetSignalCount" =>
        /\ GetSignalCount(TheBus') = ev'.toInput
        /\ \A i \in DOMAIN TheBus' : TheBus'[i] = Empty]_vars

\* C27: for an index inside the bus, SetSignal( i, s ) makes cell i equal to
\* s and leaves s and the other cells as they were; MoveSignal( i, s )
\* exchanges cell i and s, value and type, and leaves the other cells; a
\* second MoveSignal( i, s ) gives back the bus and the signal of before the
\* first.
C27_SetCopiesMoveSwaps ==
    /\ [][(ev'.kind = "SetSignal" /\ ev'.toInput \in DOMAIN TheBus) =>
            /\ TheBus' = [TheBus EXCEPT ![ev'.toInput] = TheSignal]
            /\ TheSignal' = TheSignal]_vars
    /\ [][(ev'.kind = "MoveSignal" /\ ev'.toInput \in DOMAIN TheBus) =>
            /\ TheBus' = [TheBus EXCEPT ![ev'.toInput] = TheSignal]
            /\ TheSignal' = TheBus[ev'.toInput]
            /\ TypeOf(TheSignal') = TypeOf(TheBus[ev'.toInput])
            /\ TypeOf(TheBus'[ev'.toInput]) = TypeOf(TheSignal)
            /\ LET again == MoveSignal(TheBus', ev'.toInput, TheSignal') IN
               again.bus = TheBus /\ again.signal = TheSignal]_vars

\* MoveSignal has exchanged an int in the signal outside the bus with a float
\* in the last cell
C27_Witness ==
    /\ ev.kind = "MoveSignal" /\ ev.toInput = NumInputs - 1
    /\ GetSignalCount(TheBus) = NumInputs
    /\ TypeOf(TheBus[ev.toInput]) = "int"
    /\ TypeOf(TheSignal) = "float"

\* --------------------------------- specification: GetCircuitPosition calls
\* Component::GetCircuitPosition( offset ) calls GetCircuitPosition( 1 ) on
\* the source of every input wire and returns offset plus the largest
\* result.  The calls in progress are the frames of stack: component c is at
\* wire i of its loop with furthestPos so far.  The thread's stack holds
\* MaxDepth frames; a call beyond them overflows it and ends the process, so
\* that no call in progress ever returns.
MaxDepth == 4

PositionFrame(c, offset) ==
    [c |-> c, b |-> 0, pc |-> "getCircuitPosition", i |-> 1, offset |-> offset,
     furthestPos |-> 0]

positionFrame == <<threads, caller, alive, subclass, queue, count, processOrder, bufferCount, threadPool,
                   inputWires, refs, inputBuses, outputBuses, tickStatuses,
                   feedbackWires, releaseFlags, taskPc, cur, parked, pos, curBuf,
                   nextBuf, rewire, ticked, fedBack, processed, lastOut, entered>>

\* a caller's GetCircuitPosition() on component c (offset 0)
GetCircuitPositionCall(c) ==
    /\ Quiescent
    /\ stack' = <<PositionFrame(c, 0)>>
    /\ ev' = CallEvent("GetCircuitPosition", c, 0)
    /\ UNCHANGED <<retval, positionFrame>>

\* lines 199-201: the loop has a wire left, GetCircuitPosition( 1 ) is called
\* on its source
GetCircuitPositionSource ==
    /\ Running("getCircuitPosition") /\ MoreWires
    /\ stack' = IF Len(stack) < MaxDepth
                THEN <<PositionFrame(TopWire.fromComponent, 1)>> \o stack
                ELSE <<[Top EXCEPT !.pc = "overflow"]>> \o Tail(stack)
    /\ ev' = CallEvent("GetCircuitPosition", TopWire.fromComponent, 0)
    /\ UNCHANGED <<retval, positionFrame>>

FurthestPosIsLast(furthestPos, position) == position

\* lines 202-205: if ( pos > furthestPos ) furthestPos = pos
FurthestPos(furthestPos, position) ==
    IF position > furthestPos THEN position ELSE furthestPos

\* lines 202-207: the loop is over, offset + furthestPos is returned; the
\* caller's loop keeps the largest result (lines 201-205)
GetCircuitPositionReturn ==
    /\ Running("getCircuitPosition") /\ ~MoreWires
    /\ LET position == Top.offset + Top.furthestPos
           rest == Tail(stack)
       IN
       /\ retval' = position
       /\ stack' = IF rest = <<>> THEN <<>>
                   ELSE <<[Head(rest) EXCEPT
                              !.i = @ + 1,
                              !.furthestPos = FurthestPos(@, position)]>>
                        \o Tail(rest)
       /\ ev' = Event("GetCircuitPositionReturn", Top.c, 0, Top.c, 0, 0, NotTicked, position)
    /\ UNCHANGED positionFrame

InitPosition == Constructed /\ cur = 1 /\ parked = <<>> /\ rewire = 0

NextPosition ==
    \/ \E c \in Comps, from \in Comps, fromOutput \in Outputs, toInput \in Inputs :
            ConnectInputValid(c, from, fromOutput, toInput)
    \/ \E c \in Comps : GetCircuitPositionCall(c)
    \/ GetCircuitPositionSource
    \/ GetCircuitPositionReturn

SpecPosition == InitPosition /\ [][NextPosition]_vars

\* the thread inside GetCircuitPosition keeps running
FairPosition == WF_vars(GetCircuitPositionSource \/ GetCircuitPositionReturn)

SpecPositionFair == SpecPosition /\ FairPosition

\* ------------------------------------------- claims on GetCircuitPosition
\* C24: every GetCircuitPosition call returns, on every wiring graph, graphs
\* with cycles and self-loops included.
C24_GetCircuitPositionReturns == (stack # <<>>) ~> (stack = <<>>)

\* ------------------------------------------ claims on the pool's DoTick
\* the step is a step of the pool task of (c, b) from position old
TaskStepFrom(c, b, old) ==
    /\ b \in DOMAIN taskPc[c] /\ b \in DOMAIN taskPc'[c]
    /\ taskPc[c][b] = old
    /\ taskPc'[c][b] = old + 1

\* C29: with a pool, the worker of (c, b) reads the source of a wire that is
\* not in feedbackWires only when the source's DoTick( b ) of this tick has
\* finished (its task is done and it has run Process_), and enters Process_
\* only when every wire has been read (no feedback wire is left to read and
\* every other source has finished) and its own outputs are cleared.
C29_ReadAfterSourceProcessAfterReads ==
    [][\A c \in Comps : \A b \in DOMAIN taskPc[c] :
        /\ \A i \in 1..Len(inputWires[c]) :
              (/\ ev'.kind = "GetOutput" /\ ev'.c = c /\ ev'.b = b
               /\ TaskStepFrom(c, b, i)
               /\ i \notin feedbackWires[c][b]) =>
                    /\ taskPc[inputWires[c][i].fromComponent][b] = 0
                    /\ ProcessedInTick(inputWires[c][i].fromComponent, b)
        /\ (/\ ev'.kind = "ProcessEnter" /\ ev'.c = c /\ ev'.b = b
            /\ TaskStepFrom(c, b, Len(inputWires[c]) + 2)) =>
                /\ feedbackWires[c][b] = {}
                /\ \A o \in DOMAIN outputBuses[c][b] : outputBuses[c][b][o] = Empty
                /\ \A i \in 1..Len(inputWires[c]) :
                      LET from == inputWires[c][i].fromComponent IN
                      \/ taskPc[from][b] = 0 /\ ProcessedInTick(from, b)
                      \/ from = c
                      \/ processed[from][b] = 0]_vars

\* a pool worker has read, over a wire that is not a feedback wire, the value
\* that its source produced in this tick of a graph with a cycle
C29_Witness ==
    /\ ev.kind = "GetOutput" /\ HasPool(ev.c) /\ fedBack
    /\ ev.from # ev.c
    /\ taskPc[ev.c][ev.b] > 1
    /\ taskPc[ev.from][ev.b] = 0 /\ processed[ev.from][ev.b] = 1
    /\ inputBuses[ev.c][ev.b][ev.toInput] # Empty
    /\ inputBuses[ev.c][ev.b][ev.toInput] = lastOut[ev.from][ev.b][ev.fromOutput]

\* ------------------------------ specification: a first-in first-out pool
\* ThreadPool gives every buffer a bucket of tasks served first in, first
\* out; with one worker per buffer the worker runs the oldest task of its
\* bucket to its end before it takes the next.  ComponentThread::TickAsync
\* puts _DoTick( b ) of the component at the end of bucket b.
RunsOnWorker(c, b) == queue[b] # <<>> /\ Head(queue[b]) = c

\* Component::Tick, lines 326-328 and 345 (pool): Ticking, TickAsync, return
FifoDispatch ==
    /\ Running("tickSources") /\ ~MoreWires
    /\ tickStatuses' = [tickStatuses EXCEPT ![Top.c][Top.b] = Ticking]
    /\ taskPc' = [taskPc EXCEPT ![Top.c][Top.b] = 1]
    /\ queue' = [queue EXCEPT ![Top.b] = Append(@, Top.c)]
    /\ stack' = Tail(stack)
    /\ retval' = TRUE
    /\ ev' = TickEvent("TickReturn", Top.c, Top.b, NotTicked, TRUE)
    /\ UNCHANGED <<cur, parked, threads, caller, alive, subclass, processOrder, bufferCount, threadPool,
                   inputWires, refs,
                   inputBuses, outputBuses, feedbackWires, releaseFlags,
                   pos, curBuf, nextBuf, rewire, ticked, fedBack, processed, lastOut, count, entered>>

FifoGetOutput(c, b) == RunsOnWorker(c, b) /\ TaskGetOutput(c, b)

FifoClear(c, b) == RunsOnWorker(c, b) /\ TaskClear(c, b)

FifoEnter(c, b) == RunsOnWorker(c, b) /\ TaskEnter(c, b)

\* Component::_DoTick, lines 437-447 (pool): Process_ returns, the next buffer
\* is released, the task is done and the worker takes the next of the bucket
FifoProcess(c, b) ==
    /\ RunsOnWorker(c, b)
    /\ b \in DOMAIN taskPc[c]
    /\ taskPc[c][b] = Len(inputWires[c]) + 3
    /\ Process(c, b)
    /\ taskPc' = [taskPc EXCEPT ![c][b] = 0]
    /\ queue' = [queue EXCEPT ![b] = Tail(@)]
    /\ ev' = CallEvent("Process", c, b)
    /\ UNCHANGED <<threads, caller, alive, subclass, processOrder, bufferCount, threadPool, inputWires, refs,
                   tickStatuses, feedbackWires, tickVars, entered>>

\* a step of the worker of bucket b
FifoWorker(b) ==
    \E c \in Comps :
        \/ FifoGetOutput(c, b)
        \/ FifoClear(c, b)
        \/ FifoEnter(c, b)
        \/ FifoProcess(c, b)

\* Circuit::Tick on a circuit whose components have a pool
FifoStartTick == (\A c \in Comps : HasPool(c)) /\ StartTick

\* The components are wired (with valid indices) and given a pool with one
\* worker per buffer before the first tick; then the circuit ticks.
NextFifo ==
    \/ \E c \in Comps, from \in Comps, fromOutput \in Outputs, toInput \in Inputs :
            ConnectInputValid(c, from, fromOutput, toInput)
    \/ \E bufferCnt \in 1..MaxBuffers : SetBufferCountFirst(bufferCnt, 1)
    \/ FifoStartTick
    \/ TickComponent(FALSE)
    \/ SetTickStarted
    \/ PoolTickSource
    \/ PoolTickReturned
    \/ FifoDispatch
    \/ \E c \in Comps, b \in 0..(MaxBuffers - 1) : FifoGetOutput(c, b)
    \/ \E c \in Comps, b \in 0..(MaxBuffers - 1) : FifoClear(c, b)
    \/ \E c \in Comps, b \in 0..(MaxBuffers - 1) : FifoEnter(c, b)
    \/ \E c \in Comps, b \in 0..(MaxBuffers - 1) : FifoProcess(c, b)
    \/ ResetComponent(FALSE)

SpecFifo == InitFixed /\ [][NextFifo]_vars

\* every worker of the pool keeps running
FairFifo == \A b \in 0..(MaxBuffers - 1) : WF_vars(FifoWorker(b))

SpecFifoFair == SpecFifo /\ FairFifo

\* ------------------------------------------------ claims on the pool's queue
Dispatched(c, b) == b \in DOMAIN taskPc[c] /\ taskPc[c][b] # 0

\* C30: with a pool that serves each bucket first in, first out with one
\* worker, on every wiring graph, every dispatched DoTick finishes, and a
\* task in a bucket reads no source that is not a feedback source and whose
\* task is behind it in the bucket.
C30_DispatchedDoTickFinishes ==
    /\ \A c \in 1..NumComps : \A b \in 0..(MaxBuffers - 1) :
            Dispatched(c, b) ~> ~Dispatched(c, b)
    /\ [](\A b \in DOMAIN queue : \A k \in 1..Len(queue[b]) :
            LET c == queue[b][k] IN
            \A i \in 1..Len(inputWires[c]) :
                (i \notin feedbackWires[c][b] /\ i >= taskPc[c][b]) =>
                    \A j \in k..Len(queue[b]) :
                        queue[b][j] # inputWires[c][i].fromComponent)

\* two tasks are in a bucket, and the first has read a feedback wire from the
\* component of the second
C30_Witness ==
    \E b \in DOMAIN queue :
        /\ Len(queue[b]) = 2
        /\ queue[b][1] # queue[b][2]
        /\ taskPc[queue[b][1]][b] > 1
        /\ \E i \in 1..Len(inputWires[queue[b][1]]) :
              /\ i < taskPc[queue[b][1]][b]
              /\ inputWires[queue[b][1]][i].fromComponent = queue[b][2]

\* -------------------- specification: the pool is changed between the ticks
\* Two pass-through components are wired; a caller ticks single components
\* on any of their buffers without resetting them, and between the ticks
\* every component is given a new pool (MaxRewire times once a tick was
\* made): a null pool, or one that reports a buffer count from -1 to
\* MaxBuffers and no thread or one thread per buffer.
ResizePools ==
    {NoPool} \cup [bufferCount : (-1)..MaxBuffers, threadsPerBuffer : 0..MaxThreads]

\* no DoTick is in flight on a pool
TasksDone == \A c \in Comps : \A b \in DOMAIN taskPc[c] : taskPc[c][b] = 0

\* Component::SetThreadPool( pool ) on every component; the event keeps what
\* the pool is and the buffer count it reports
SetThreadPoolAll(pool) ==
    /\ MayRewire
    /\ Rewired
    /\ TasksDone
    /\ SetThreadPool(Comps, pool)
    /\ nextBuf' = 0
    /\ ev' = TickEvent("SetThreadPoolAll", 1,
                       IF pool = NoPool THEN 0 ELSE pool.bufferCount,
                       PoolKind(pool), TRUE)
    /\ UNCHANGED <<cur, parked, threads, caller, alive, subclass, queue, processOrder, inputWires, stack, retval,
                   pos, curBuf, ticked, fedBack>>

\* a caller's component->Tick( b ), with no Reset after it
CallerTick(c, b) ==
    /\ Quiescent
    /\ ConsumedBounded
    /\ CountBounded
    /\ b \in DOMAIN tickStatuses[c]
    /\ TickCall(c, b, <<>>)
    /\ ticked' = TRUE
    /\ UNCHANGED <<cur, parked, threads, caller, alive, subclass, queue, processOrder, bufferCount, threadPool,
                   inputWires, refs,
                   inputBuses, outputBuses, tickStatuses, feedbackWires, releaseFlags,
                   taskPc, pos, curBuf, nextBuf, rewire, fedBack, processed, lastOut, count, entered>>

NextResize ==
    \/ \E c \in Comps, from \in Comps, fromOutput \in Outputs, toInput \in Inputs :
            ConnectInputValid(c, from, fromOutput, toInput)
    \/ \E pool \in ResizePools : SetThreadPoolAll(pool)
    \/ \E c \in Comps, b \in 0..(MaxBuffers - 1) : CallerTick(c, b)
    \/ SetTickStarted
    \/ PoolTickSource
    \/ PoolTickReturned
    \/ PoolDispatch
    \/ SetTicking
    \/ DoTickSource
    \/ DoTickGetOutput
    \/ DoTickClear
    \/ DoTickEnter
    \/ DoTickProcess
    \/ \E c \in Comps, b \in 0..(MaxBuffers - 1) : TaskGetOutput(c, b)
    \/ \E c \in Comps, b \in 0..(MaxBuffers - 1) : TaskClear(c, b)
    \/ \E c \in Comps, b \in 0..(MaxBuffers - 1) : TaskEnter(c, b)
    \/ \E c \in Comps, b \in 0..(MaxBuffers - 1) : TaskProcess(c, b)

InitResize ==
    /\ ConstructedAs(<<PassThrough, PassThrough>>,
                     [c \in 1..NumComps |-> IF c = 1 THEN InOrder ELSE OutOfOrder])
    /\ cur = 1 /\ parked = <<>> /\ rewire = MaxRewire

SpecResize == InitResize /\ [][NextResize]_vars

\* ------------------------------------------------- claims on SetThreadPool
\* C31: after SetThreadPool with buffer count B (the count the pool reports,
\* or 1 when the pool is null or reports a count <= 0), B >= 1, every
\* per-buffer vector of the component has B entries, every tick status is
\* NotTicked, release flag 0 is set and the others are clear, every bus has
\* the signal count of the bus of buffer 0, and every buffer's total of each
\* output is buffer 0's.
C31_SetThreadPoolPostcondition ==
    [][ev'.kind = "SetThreadPoolAll" =>
          LET B == IF ev'.status = "null" \/ ev'.b <= 0 THEN 1 ELSE ev'.b IN
          /\ B >= 1
          /\ \A c \in Comps :
                /\ bufferCount'[c] = B
                /\ DOMAIN tickStatuses'[c] = 0..(B - 1)
                /\ DOMAIN feedbackWires'[c] = 0..(B - 1)
                /\ DOMAIN inputBuses'[c] = 0..(B - 1)
                /\ DOMAIN outputBuses'[c] = 0..(B - 1)
                /\ DOMAIN releaseFlags'[c] = 0..(B - 1)
                /\ DOMAIN refs'[c] = 0..(B - 1)
                /\ \A b \in 0..(B - 1) :
                      /\ tickStatuses'[c][b] = NotTicked
                      /\ releaseFlags'[c][b] = (b = 0)
                      /\ GetSignalCount(inputBuses'[c][b])
                            = GetSignalCount(inputBuses'[c][0])
                      /\ GetSignalCount(outputBuses'[c][b])
                            = GetSignalCount(outputBuses'[c][0])
                      /\ \A o \in Outputs :
                            refs'[c][b][o].total = refs'[c][0][o].total]_vars

\* SetThreadPool has just given MaxBuffers buffers to a component that has a
\* wire on one of its outputs and that its caller had ticked, and so left
\* Ticking, on buffer 0
C31_Witness ==
    /\ ev.kind = "SetThreadPoolAll"
    /\ \E c \in Comps :
          /\ bufferCount[c] = MaxBuffers
          /\ processed[c][0] > 0
          /\ \E o \in Outputs : refs[c][MaxBuffers - 1][o].total > 0

\* ------------------ specification: a CircuitThread that is synced and resumed
\* As above, and the caller also calls Sync on its own, any number of times,
\* and gives SyncAndResume either mode.
SyncCall ==
    /\ caller.op = "idle" /\ threads # <<>>
    /\ \A w \in DOMAIN threads : ~threads[w].stopped
    /\ caller' = [caller EXCEPT !.op = "Sync", !.i = 1]
    /\ ev' = CallEvent("SyncCall", 1, 0)
    /\ UNCHANGED <<threads, parked, pos, stopFrame>>

\* CircuitThread::Sync, line 123: the call returns
SyncReturns ==
    /\ caller.op = "SyncReturn"
    /\ caller' = [caller EXCEPT !.op = "idle", !.i = 1, !.woken = FALSE]
    /\ ev' = CallEvent("SyncReturned", 1, 0)
    /\ UNCHANGED <<threads, parked, pos, stopFrame>>

NextSync ==
    \/ \E threadsPerBuffer \in 1..ThreadsPerBuffer : Start(threadsPerBuffer)
    \/ SyncCall
    \/ SyncReturns
    \/ \E mode \in TickModes : SyncAndResumeMode(mode)
    \/ StopCall
    \/ CallerRun
    \/ \E w \in 1..ThreadsPerBuffer : Switch(w)
    \/ WorkerRun

SpecSync == InitStop /\ [][NextSync]_vars

\* ---------------------------------------- claims on the sync points of _Run
\* the frames and the position in the list of worker w
ContextOf(w) == IF w = cur THEN Context(stack, retval, pos, curBuf) ELSE parked[w]

\* worker w waits for a resume at a sync point: it is in resumeCondt.wait,
\* not notified, its resume flag is down, and it is in no call on a component
ParkedAtSync(w) ==
    /\ Waiting(threads[w])
    /\ ~threads[w].woken
    /\ ~threads[w].gotResume
    /\ ContextOf(w).stack = <<>>

AllParked == \A w \in DOMAIN threads : ParkedAtSync(w)

InitPhases ==
    /\ ConstructedAs(<<Counter, Counter>>, <<OutOfOrder, OutOfOrder>>)
    /\ cur = 1 /\ parked = <<>> /\ rewire = 0

SpecPhases == InitPhases /\ [][NextStop]_vars

\* ------------------------------------------ claims on the phases of _Run
\* the step is a call of Tick made by _Run of the running worker
RunTickStep == cur \in DOMAIN threads /\ stack = <<>> /\ ev'.kind \in {"Tick", "TickEnter"}

\* the step is a call of Reset made by _Run of the running worker
RunResetStep == cur \in DOMAIN threads /\ ev'.kind = "Reset"

InitDag ==
    /\ ConstructedAs(<<Arbitrary, Arbitrary, Arbitrary>>, <<OutOfOrder, OutOfOrder, OutOfOrder>>)
    /\ cur = 1 /\ parked = <<>> /\ rewire = 0

SpecDag == InitDag /\ [][NextPosition]_vars

\* there is a wire from an output of component from to an input of component c
Feeds(from, c) ==
    \E i \in 1..Len(inputWires[c]) : inputWires[c][i].fromComponent = from

\* the paths of the wiring graph that start at a component without input
\* wires and end at c, as sequences of components
PathsTo(c) ==
    {p \in UNION {[1..n -> Comps] : n \in 1..CircuitSize} :
        /\ p[Len(p)] = c
        /\ inputWires[p[1]] = <<>>
        /\ \A k \in 1..(Len(p) - 1) : Feeds(p[k], p[k + 1])}

\* the number of wires on the longest of them
LongestPathTo(c) ==
    CHOOSE n \in 0..CircuitSize :
        /\ \E p \in PathsTo(c) : Len(p) = n + 1
        /\ \A p \in PathsTo(c) : Len(p) <= n + 1

\* C35: on an acyclic wiring graph, GetCircuitPosition( offset ) returns
\* offset plus the number of wires on the longest path from a component
\* without input wires to this component.
C35_PositionIsLongestPath ==
    [][(ev'.kind = "GetCircuitPositionReturn" /\ ~Cyclic) =>
            ev'.result = Top.offset + LongestPathTo(Top.c)]_vars

\* GetCircuitPosition() has returned 2 for a component that has a source at
\* distance 1 first and a source at distance 2 after it in its list of wires
C35_Witness ==
    /\ ev.kind = "GetCircuitPositionReturn" /\ stack = <<>> /\ ~Cyclic
    /\ ev.result = 2
    /\ Len(inputWires[ev.c]) = 2
    /\ inputWires[inputWires[ev.c][1].fromComponent] = <<>>
    /\ inputWires[inputWires[ev.c][2].fromComponent] # <<>>

\* ---------------- specification: several workers on components with a pool
\* Two pass-through components are wired and given a pool of one buffer and
\* one thread, then ThreadsPerBuffer CircuitThread workers tick and reset
\* them on buffer 0, resumed by SyncAndResume pass after pass.
NextPoolWorkers ==
    \/ \E c \in Comps, from \in Comps, fromOutput \in Outputs, toInput \in Inputs :
            ConnectInputValid(c, from, fromOutput, toInput)
    \/ SetBufferCountFirst(1, 1)
    \/ (\A c \in Comps : HasPool(c)) /\ SyncAndResume
    \/ \E w \in 1..ThreadsPerBuffer : Switch(w)
    \/ TickComponent(TRUE)
    \/ SetTickStarted
    \/ PoolTickSource
    \/ PoolTickReturned
    \/ PoolDispatch
    \/ \E c \in Comps : TaskGetOutput(c, 0)
    \/ \E c \in Comps : TaskClear(c, 0)
    \/ \E c \in Comps : TaskEnter(c, 0)
    \/ \E c \in Comps : TaskProcess(c, 0)
    \/ ResetComponent(TRUE)

InitPoolWorkers ==
    /\ ConstructedAs(<<PassThrough, PassThrough>>, <<OutOfOrder, OutOfOrder>>)
    /\ cur = 1
    /\ parked = [w \in 2..ThreadsPerBuffer |-> Context(<<>>, TRUE, 0, 0)]
    /\ rewire = 0

SpecPoolWorkers == InitPoolWorkers /\ [][NextPoolWorkers]_vars

\* ------------------------------------------------ claims on feedback wires
\* wire i of component c lies on a directed cycle of the wiring graph
OnCycle(c, i) ==
    LET from == inputWires[c][i].fromComponent IN
    from = c \/ c \in Upstream(from, CircuitSize)

\* C36: a wire is in feedbackWires[b] only if it lies on a directed cycle of
\* the wiring graph, whichever thread and however many CircuitThread workers
\* drive the tick.
C36_FeedbackOnlyOnCycles ==
    \A c \in Comps : \A b \in DOMAIN feedbackWires[c] : \A i \in feedbackWires[c][b] :
        i \in 1..Len(inputWires[c]) /\ OnCycle(c, i)

\* ------------------------------------------- claims on tick and reset pairs
\* the engine state of buffer b of component c is at rest: NotTicked, no
\* input signal, no feedback wire, no DoTick in flight
AtRest(c, b) ==
    /\ tickStatuses[c][b] = NotTicked
    /\ inputBuses[c][b] = ClearAllValues(inputBuses[c][b])
    /\ feedbackWires[c][b] = {}
    /\ taskPc[c][b] = 0

\* a tick and the resets after it have been made on buffer curBuf
TickAndResetDone == Quiescent /\ ticked

FlagsSet(c) == {b \in DOMAIN releaseFlags[c] : releaseFlags[c][b]}

\* the buffers of c that have taken their release in _WaitForRelease and
\* have not yet passed it on in _ReleaseThread, and the flags that are set
ReleaseTokens(c) == Cardinality(FlagsSet(c)) + Cardinality(BuffersInProcess(c))

\* C38: for an InOrder component with more than one buffer the number of
\* release flags that are set plus the number of buffers between the return
\* of _WaitForRelease and the end of _ReleaseThread is 1 in every state
C38_OneReleaseToken ==
    \A c \in Comps : NeedsRelease(c) => ReleaseTokens(c) = 1

\* ---------------------------------------------- claims on ticks with no pool
\* The thread inside a Tick call is a running thread: it takes its next
\* step.  Nothing makes the circuit's user wire, tick or reset again.
TickStep ==
    \/ SetTickStarted
    \/ PoolTickSource
    \/ PoolTickReturned
    \/ PoolDispatch
    \/ SetTicking
    \/ DoTickSource
    \/ DoTickGetOutput
    \/ DoTickClear
    \/ DoTickEnter
    \/ DoTickProcess

FairTick == WF_vars(TickStep)

SpecFixedFair == SpecFixed /\ FairTick

NoPoolAtAll == \A c \in Comps : ~HasPool(c)

\* a frame of Tick / _DoTick that is past line 333: in _DoTick
InDoTick(frame) == frame.pc \notin {"tickStarted", "setTicking"}

\* no component has two frames on the call stack
FramesDistinct ==
    \A k, l \in 1..Len(stack) : stack[k].c = stack[l].c => k = l

\* without pool: no feedback wire is recorded, no Tick call returns false, a
\* call that starts no tick found the component Ticking, every component
\* whose sources are being ticked is Ticking, and a component is entered
\* once
NoPoolTickCutsCycles ==
    NoPoolAtAll =>
        /\ \A c \in Comps : \A b \in DOMAIN feedbackWires[c] : feedbackWires[c][b] = {}
        /\ ev.kind \in {"Tick", "TickReturn"} => ev.result
        /\ ev.kind = "Tick" => ev.status = Ticking
        /\ \A k \in 1..Len(stack) :
              InDoTick(stack[k]) => tickStatuses[stack[k].c][stack[k].b] = Ticking
        /\ FramesDistinct

\* C39: with no pool and one driving thread Tick never returns false and
\* feedbackWires stays empty; the status is Ticking before any source is
\* ticked, a re-entered component is found Ticking, and every Tick call,
\* with the calls it makes on the sources, returns
C39_NoPoolTickTerminates ==
    /\ []NoPoolTickCutsCycles
    /\ (stack # <<>> /\ NoPoolAtAll) ~> (stack = <<>>)

\* on a cycle of two components without pool, on the second buffer, the Tick
\* call that _DoTick of the second component makes on the first finds it
\* Ticking and returns true
C39_Witness ==
    /\ NoPoolAtAll /\ Cyclic
    /\ ev.kind = "Tick" /\ ev.status = Ticking /\ ev.result
    /\ ev.b = 1
    /\ Len(stack) = 2 /\ ev.c = stack[2].c /\ stack[1].c # stack[2].c

\* ------------------------------------------ claims on feedback and buffers
\* wire i of c is a feedback wire of the tick in progress on buffer b: c is
\* through with its reads and the wire's source has not run Process_ in this
\* tick
FeedbackRead(c, b, i) ==
    LET w == inputWires[c][i] IN
    /\ ValidIndices(c, w.fromComponent, w.fromOutput, w.toInput)
    /\ ~ProcessedInTick(w.fromComponent, b)

WiringFixed == rewire = MaxRewire

====
